---- MODULE Spec2Model ----
(***************************************************************************)
(* Model of the OAuth2 / OpenID Connect provider types of                  *)
(* baserow_enterprise/sso/oauth2/auth_provider_types.py, of the builder    *)
(* domain handler (contrib/builder/domains/handler.py), and of the         *)
(* automation workflow service and the local Baserow table service as      *)
(* their tests exercise them.                                              *)
(*                                                                         *)
(* Conventions.  An optional value (a missing dict key, Python's None, a   *)
(* raised exception in place of a response) is a set: Absent is the empty  *)
(* set and Some(v) the singleton.  A Python dict is the set of its         *)
(* <<key, value>> pairs.                                                   *)
(***************************************************************************)
EXTENDS Integers, Sequences, FiniteSets, TLC

VARIABLES
    session,    \* the browser session: 'oauth_state', 'oauth_request_data'
    gen,        \* how many state tokens generate_token has handed out
    consumed,   \* per state token, the callbacks that popped it (history)
    call,       \* the last login or callback call and its outcome
    cache,      \* the JWKS cache, by cache key
    upstream,   \* the key set each provider publishes at its JWKS url
    procs,      \* concurrent ID-token key resolutions, by request
    providers,  \* the stored OIDC provider records, by id
    cfgCall,    \* the last create or update call and its outcome
    domains,    \* the Domain rows, by id
    builders,   \* the Builder rows, by id
    workspace,  \* the workspace the builders live in
    builderSeq, \* the last id given to a Builder row
    domCall,    \* the last DomainHandler call and its outcome
    pubs,       \* concurrent publish calls, by request
    rowLocks,   \* per Domain row, the transaction holding its row lock
    userSources, \* the user sources of the builder and of its publications
    uuidSeq,    \* how many uuids have been generated for user sources
    usCall,     \* the last user source operation and what it saw
    workflows,  \* the AutomationWorkflow rows, by id
    wfSeq,      \* the last id given to an AutomationWorkflow row
    wfCall,     \* the last AutomationWorkflowService call and its outcome
    table,      \* the table a local Baserow service reads: fields, version
    svcCache,   \* what the service type has cached, by cache key
    svcCall,    \* the last service type call and its outcome
    isUrlAlreadyLoaded, \* the module global _is_url_already_loaded
    urlCalls,   \* the get_api_urls calls of the process so far (history)
    flow        \* the logins and callbacks of the browser session (history)

ssoVars == <<session, gen, consumed, call, cache, upstream, procs, providers,
             cfgCall>>
publishVars == <<pubs, rowLocks>>
userSourceVars == <<userSources, uuidSeq, usCall>>
builderVars == <<domains, builders, workspace, builderSeq, domCall,
                 publishVars, userSourceVars>>
workflowVars == <<workflows, wfSeq, wfCall>>
serviceVars == <<table, svcCache, svcCall>>
urlVars == <<isUrlAlreadyLoaded, urlCalls>>
flowVars == <<flow>>

vars ==
    <<ssoVars, builderVars, workflowVars, serviceVars, urlVars, flowVars>>

Absent == {}
Some(v) == {v}
The(o) == CHOOSE v \in o : TRUE

(* Number of tokens the random state generator may hand out in a run. *)
MaxGen == 2

States == 1 .. MaxGen

(* The state parameter a callback request may carry. *)
Presented == {1, 2}

DictGet(d, k, default) ==
    IF \E p \in d : p[1] = k THEN (CHOOSE p \in d : p[1] = k)[2] ELSE default

(* json.dumps / json.loads: the session stores a string, not the dict. *)
JsonDumps(d) == <<"json", d>>
IsJson(s) == s[1] = "json"
JsonLoads(s) == s[2]

(***************************************************************************)
(* Inputs.                                                                 *)
(***************************************************************************)
Kids == {"k1", "k2"}
Urls == {"u1", "u2"}

(* Mutant: one cache key for the JWKS of every provider. *)
JwksCacheKeyShared(jwks_url) == <<"enterprise_oidc_jwks_result_", "">>

(* cache_key = f"enterprise_oidc_jwks_result_{jwks_url}" *)
JwksCacheKey(jwks_url) == <<"enterprise_oidc_jwks_result_", jwks_url>>

(* The keys global_cache is used under. *)
CacheKeys == {JwksCacheKey(u) : u \in Urls}

Q1 == {<<"original", "/a">>}
Q2 == {<<"workspace_invitation_token", "tok">>, <<"language", "fr">>,
       <<"original", "/b">>}
QueryParams == {Absent, Some({}), Some(Q1), Some(Q2)}

(* The attribute keys an OIDC provider record is configured with. *)
EmailAttrKey == "email"
FirstNameAttrKey == "given_name"
LastNameAttrKey == "family_name"

Instance(t, b, u, last) ==
    [type |-> t, use_id_token |-> b, jwks_url |-> u,
     email_attr_key |-> EmailAttrKey,
     first_name_attr_key |-> FirstNameAttrKey,
     last_name_attr_key |-> last]

Instances ==
    {Instance(t, FALSE, "none", "") :
        t \in {"google", "github", "gitlab", "facebook"}}
    \cup {Instance("openid_connect", b, "u1", LastNameAttrKey) :
        b \in BOOLEAN}

(* A JWKS document as fetched: json with a "keys" list, or json without. *)
Jwks(ks) == [wellformed |-> TRUE, keys |-> ks]
MalformedJwks == [wellformed |-> FALSE, keys |-> {}]
KeySets == {{"k1"}, {"k2"}}
FetchOutcomes == {"ok", "fail", "malformed"}

(* The header of an id_token: a kid, an undecodable header, or no kid. *)
Headers == Kids \cup {"undecodable", "nokid"}
(* The claims of an ID token, as jwt.decode returns them. *)
IdClaims == {<<"email", "c@x">>, <<"given_name", "A">>, <<"family_name", "B">>}
IdTokens == [hdr : Headers, sigOk : BOOLEAN, claims : {IdClaims}]
(* The token endpoint's answer: an exception, or a token dict. *)
TokenResponses == {Absent} \cup {Some([id_token |-> i]) : i \in {Absent} \cup {Some(t) : t \in IdTokens}}

(* The user-info endpoint's json; "None" stands for a json null. *)
UserJson == {<<"email", "a@x">>, <<"name", "A">>, <<"given_name", "A">>}
UserJsonNullName ==
    {<<"email", "a@x">>, <<"name", "None">>, <<"given_name", "None">>}
UserResponses == {Absent, Some(UserJson), Some(UserJsonNullName)}
PrimaryOnly == <<[email |-> "p@x", primary |-> TRUE]>>
EmailLists == {PrimaryOnly}
EmailResponses == {Absent} \cup {Some(l) : l \in EmailLists}

(***************************************************************************)
(* Session helpers.                                                        *)
(***************************************************************************)
EmptySession == [oauth_state |-> Absent, oauth_request_data |-> Absent]

PushRequestDataToSession(sess, query_params) ==
    [sess EXCEPT !.oauth_request_data =
        Some(JsonDumps(IF query_params = Absent THEN {} ELSE The(query_params)))]

(* Mutant: the stored request data is read and left in the session. *)
PopRequestDataFromSessionKeep(sess) ==
    [data |-> IF sess.oauth_request_data # Absent
                 /\ IsJson(The(sess.oauth_request_data))
              THEN JsonLoads(The(sess.oauth_request_data))
              ELSE {},
     session |-> sess]

PopRequestDataFromSession(sess) ==
    [data |-> IF sess.oauth_request_data # Absent
                 /\ IsJson(The(sess.oauth_request_data))
              THEN JsonLoads(The(sess.oauth_request_data))
              ELSE {},
     session |-> [sess EXCEPT !.oauth_request_data = Absent]]

(* Mutant: the stored state is read, not popped. *)
GetOauthSessionNoPop(sess) ==
    [state |-> sess.oauth_state, session |-> sess]

(* get_oauth_session: the stored state, if any, is popped into the client. *)
GetOauthSession(sess) ==
    [state |-> sess.oauth_state,
     session |-> [sess EXCEPT !.oauth_state = Absent]]

(* OAuth2Session.authorization_url -> new_state(): a client built with a   *)
(* state string re-uses it; one built without draws generate_token().      *)
AuthorizationUrlState(oauthState, g) ==
    IF oauthState = Absent THEN g + 1 ELSE The(oauthState)

(* Mutant: request data already in the session is not overwritten. *)
GetAuthorizationUrlKeepFirst(sess, g, query_params) ==
    LET oauth == GetOauthSession(sess)
        state == AuthorizationUrlState(oauth.state, g)
        withState == [oauth.session EXCEPT !.oauth_state = Some(state)]
    IN  [state |-> state,
         generated |-> oauth.state = Absent,
         session |-> IF sess.oauth_request_data # Absent THEN withState
                     ELSE PushRequestDataToSession(withState, query_params)]

(* OAuth2AuthProviderMixin.get_authorization_url. *)
GetAuthorizationUrl(sess, g, query_params) ==
    LET oauth == GetOauthSession(sess)
        state == AuthorizationUrlState(oauth.state, g)
    IN  [state |-> state,
         generated |-> oauth.state = Absent,
         session |-> PushRequestDataToSession(
                        [oauth.session EXCEPT !.oauth_state = Some(state)],
                        query_params)]

(* The Facebook override: the same steps around facebook_compliance_fix. *)
FacebookGetAuthorizationUrl(sess, g, query_params) ==
    LET oauth == GetOauthSession(sess)
        state == AuthorizationUrlState(oauth.state, g)
    IN  [state |-> state,
         generated |-> oauth.state = Absent,
         session |-> PushRequestDataToSession(
                        [oauth.session EXCEPT !.oauth_state = Some(state)],
                        query_params)]

(***************************************************************************)
(* Strings.  Names are drawn from a small set; Strip is str.strip on it,   *)
(* and JoinStrip is " ".join([first, last]).strip() for stripped parts.    *)
(***************************************************************************)
Strip(s) ==
    CASE s = " " -> ""
      [] s = " A " -> "A"
      [] s = " B" -> "B"
      [] OTHER -> s

JoinStrip(first, last) ==
    IF first = "" THEN last
    ELSE IF last = "" THEN first
    ELSE first \o " " \o last

(***************************************************************************)
(* The callback: get_user_info and what it calls.  Every operator returns  *)
(* the outcome of the call together with the session and JWKS cache entry  *)
(* it leaves behind and the requests it made.                              *)
(***************************************************************************)
Outcome(sess, entry) ==
    [kind |-> "none", stage |-> "none", session |-> sess, entry |-> entry,
     tokenReqs |-> 0, userInfoReqs |-> 0, emailReqs |-> 0,
     lookups |-> 0, fetches |-> 0, invalidations |-> 0,
     userInfo |-> Absent, errKid |-> Absent]

MakeUserInfo(name, email, request_data) ==
    [name |-> name, email |-> email,
     workspace_invitation_token |->
        DictGet(request_data, "workspace_invitation_token", "None"),
     language |-> DictGet(request_data, "language", "None"),
     original |-> DictGet(request_data, "original", "")]

(* fetch_token(url, code=code, client_secret=secret): the code is posted   *)
(* to the token endpoint; the state held by the client takes no part.      *)
FetchToken(oauthState, tokenResp) == tokenResp

(* Mutant: a failed exchange leaves the session as it found it. *)
GetOauthTokenAndResponseKeepOnFail(sess, tokenResp, userResp) ==
    LET oauth == GetOauthSession(sess)
        token == FetchToken(oauth.state, tokenResp)
        ok == token # Absent /\ userResp # Absent
    IN  [ok |-> ok,
         stage |-> IF token = Absent THEN "token_exchange"
                   ELSE IF userResp = Absent THEN "user_info" ELSE "ok",
         session |-> IF ok THEN oauth.session ELSE sess,
         token |-> token,
         json |-> userResp,
         tokenReqs |-> 1,
         userInfoReqs |-> IF token = Absent THEN 0 ELSE 1]

(* Mutant: a failed token exchange is tried once more. *)
GetOauthTokenAndResponseRetry(sess, tokenResp, userResp) ==
    LET oauth == GetOauthSession(sess)
        token == FetchToken(oauth.state, tokenResp)
    IN  [ok |-> token # Absent /\ userResp # Absent,
         stage |-> IF token = Absent THEN "token_exchange"
                   ELSE IF userResp = Absent THEN "user_info" ELSE "ok",
         session |-> oauth.session,
         token |-> token,
         json |-> userResp,
         tokenReqs |-> IF token = Absent THEN 2 ELSE 1,
         userInfoReqs |-> IF token = Absent THEN 0 ELSE 1]

(* get_oauth_token_and_response: any exception becomes AuthFlowError. *)
GetOauthTokenAndResponse(sess, tokenResp, userResp) ==
    LET oauth == GetOauthSession(sess)
        token == FetchToken(oauth.state, tokenResp)
    IN  [ok |-> token # Absent /\ userResp # Absent,
         stage |-> IF token = Absent THEN "token_exchange"
                   ELSE IF userResp = Absent THEN "user_info" ELSE "ok",
         session |-> oauth.session,
         token |-> token,
         json |-> userResp,
         tokenReqs |-> 1,
         userInfoReqs |-> IF token = Absent THEN 0 ELSE 1]

TokenFailure(r, entry) ==
    [Outcome(r.session, entry) EXCEPT
        !.kind = "AuthFlowError", !.stage = r.stage,
        !.tokenReqs = r.tokenReqs, !.userInfoReqs = r.userInfoReqs]

GetUserInfoFromOauthJsonResponse(oauth_response_data, sess) ==
    LET popped == PopRequestDataFromSession(sess)
        email == DictGet(oauth_response_data, "email", "None")
        name0 == DictGet(oauth_response_data, "name", "")
        name == IF Strip(name0) = "" THEN email ELSE name0
    IN  [ok |-> name0 # "None",
         session |-> popped.session,
         userInfo |-> MakeUserInfo(name, email, popped.data)]

(* BaseOAuth2AuthProviderMixin.get_user_info (google, gitlab, facebook). *)
BaseGetUserInfo(sess, entry, tokenResp, userResp) ==
    LET r == GetOauthTokenAndResponse(sess, tokenResp, userResp)
        u == GetUserInfoFromOauthJsonResponse(The(r.json), r.session)
    IN  IF ~r.ok THEN TokenFailure(r, entry)
        ELSE IF ~u.ok
        THEN [Outcome(u.session, entry) EXCEPT
                !.kind = "RawError", !.stage = "parse_user_info",
                !.tokenReqs = r.tokenReqs, !.userInfoReqs = r.userInfoReqs]
        ELSE [Outcome(u.session, entry) EXCEPT
                !.kind = "UserInfo", !.stage = "done",
                !.tokenReqs = r.tokenReqs, !.userInfoReqs = r.userInfoReqs,
                !.userInfo = Some(u.userInfo)]

(* Mutant: the first entry is taken, flagged primary or not. *)
GetEmailFirst(emails) ==
    IF emails = <<>> THEN "None"
    ELSE emails[1].email

(* GitHubAuthProviderType.get_email on the parsed list of the emails API. *)
GetEmail(emails) ==
    IF emails = <<>> THEN "None"
    ELSE LET primary == SelectSeq(emails, LAMBDA e : e.primary)
             email == IF primary # <<>> THEN primary[1] ELSE emails[1]
         IN  email.email

(* GitHubAuthProviderType.get_user_info. *)
GitHubGetUserInfo(sess, entry, tokenResp, userResp, emailResp) ==
    LET r == GetOauthTokenAndResponse(sess, tokenResp, userResp)
        json == {p \in The(r.json) : p[1] # "email"}
                    \cup {<<"email", GetEmail(The(emailResp))>>}
        u == GetUserInfoFromOauthJsonResponse(json, r.session)
    IN  IF ~r.ok THEN TokenFailure(r, entry)
        ELSE IF emailResp = Absent
        THEN [Outcome(r.session, entry) EXCEPT
                !.kind = "AuthFlowError", !.stage = "emails",
                !.tokenReqs = r.tokenReqs, !.userInfoReqs = r.userInfoReqs,
                !.emailReqs = 1]
        ELSE IF ~u.ok
        THEN [Outcome(u.session, entry) EXCEPT
                !.kind = "RawError", !.stage = "parse_user_info",
                !.tokenReqs = r.tokenReqs, !.userInfoReqs = r.userInfoReqs,
                !.emailReqs = 1]
        ELSE [Outcome(u.session, entry) EXCEPT
                !.kind = "UserInfo", !.stage = "done",
                !.tokenReqs = r.tokenReqs, !.userInfoReqs = r.userInfoReqs,
                !.emailReqs = 1,
                !.userInfo = Some(u.userInfo)]

(***************************************************************************)
(* OpenID Connect.                                                         *)
(***************************************************************************)
(* global_cache.get(key, default=fetch, timeout): memoization.  f is what  *)
(* the upstream request does if it is made, up the key set then published. *)
CacheGet(entry, f, up) ==
    IF entry # Absent
    THEN [err |-> FALSE, val |-> The(entry), entry |-> entry, fetches |-> 0]
    ELSE IF f = "fail"
    THEN [err |-> TRUE, val |-> MalformedJwks, entry |-> Absent, fetches |-> 1]
    ELSE LET doc == IF f = "malformed" THEN MalformedJwks ELSE Jwks(up)
         IN  [err |-> FALSE, val |-> doc, entry |-> Some(doc), fetches |-> 1]

(* global_cache.invalidate(key). *)
CacheInvalidate(entry) == Absent

RECURSIVE GetVerifyingKey(_, _, _, _, _)

(* Mutant: the retry does not invalidate the cache entry first. *)
GetVerifyingKeyNoInvalidate(entry, up, hdr, fs, retry_on_fail) ==
    LET got == CacheGet(entry, Head(fs), up)
        base == [kind |-> "key", stage |-> "key_found", entry |-> got.entry,
                 lookups |-> 1, fetches |-> got.fetches, invalidations |-> 0,
                 errKid |-> Absent]
        again == GetVerifyingKey(got.entry, up, hdr, Tail(fs), FALSE)
    IN  IF got.err
        THEN [base EXCEPT !.kind = "AuthFlowError", !.stage = "jwks_fetch"]
        ELSE IF hdr \notin Kids
        THEN [base EXCEPT !.kind = "RawError", !.stage = "jwt_header"]
        ELSE IF ~got.val.wellformed
        THEN [base EXCEPT !.kind = "RawError", !.stage = "jwks_keys"]
        ELSE IF hdr \in got.val.keys
        THEN base
        ELSE IF retry_on_fail
        THEN [again EXCEPT !.lookups = @ + 1,
                           !.fetches = @ + got.fetches]
        ELSE [base EXCEPT !.kind = "AuthFlowError", !.stage = "key_lookup",
                          !.errKid = Some(hdr)]

(* Mutant: the retry is itself allowed one more retry. *)
GetVerifyingKeyRetryAgain(entry, up, hdr, fs, retry_on_fail) ==
    LET got == CacheGet(entry, Head(fs), up)
        base == [kind |-> "key", stage |-> "key_found", entry |-> got.entry,
                 lookups |-> 1, fetches |-> got.fetches, invalidations |-> 0,
                 errKid |-> Absent]
        again == GetVerifyingKey(CacheInvalidate(got.entry), up, hdr,
                                 IF Len(fs) > 1 THEN Tail(fs) ELSE fs,
                                 Len(fs) > 1)
    IN  IF got.err
        THEN [base EXCEPT !.kind = "AuthFlowError", !.stage = "jwks_fetch"]
        ELSE IF hdr \notin Kids
        THEN [base EXCEPT !.kind = "RawError", !.stage = "jwt_header"]
        ELSE IF ~got.val.wellformed
        THEN [base EXCEPT !.kind = "RawError", !.stage = "jwks_keys"]
        ELSE IF hdr \in got.val.keys
        THEN base
        ELSE IF retry_on_fail
        THEN [again EXCEPT !.lookups = @ + 1,
                           !.fetches = @ + got.fetches,
                           !.invalidations = @ + 1]
        ELSE [base EXCEPT !.kind = "AuthFlowError", !.stage = "key_lookup",
                          !.errKid = Some(hdr)]

(* _get_verifying_key(instance, id_token, retry_on_fail); fs are the       *)
(* outcomes of the upstream requests it may make, in order.                *)
GetVerifyingKey(entry, up, hdr, fs, retry_on_fail) ==
    LET got == CacheGet(entry, Head(fs), up)
        base == [kind |-> "key", stage |-> "key_found", entry |-> got.entry,
                 lookups |-> 1, fetches |-> got.fetches, invalidations |-> 0,
                 errKid |-> Absent]
        again == GetVerifyingKey(CacheInvalidate(got.entry), up, hdr,
                                 Tail(fs), FALSE)
    IN  IF got.err
        THEN [base EXCEPT !.kind = "AuthFlowError", !.stage = "jwks_fetch"]
        ELSE IF hdr \notin Kids
        THEN [base EXCEPT !.kind = "RawError", !.stage = "jwt_header"]
        ELSE IF ~got.val.wellformed
        THEN [base EXCEPT !.kind = "RawError", !.stage = "jwks_keys"]
        ELSE IF hdr \in got.val.keys
        THEN base
        ELSE IF retry_on_fail
        THEN [again EXCEPT !.lookups = @ + 1,
                           !.fetches = @ + got.fetches,
                           !.invalidations = @ + 1]
        ELSE [base EXCEPT !.kind = "AuthFlowError", !.stage = "key_lookup",
                          !.errKid = Some(hdr)]

(* Mutant: an empty name is returned as it is, not replaced by the email. *)
ExtractEmailAndNameNoFallback(instance, data) ==
    LET email == DictGet(data, instance.email_attr_key, "None")
        first0 == DictGet(data, instance.first_name_attr_key, "")
        last0 == IF instance.last_name_attr_key # ""
                 THEN DictGet(data, instance.last_name_attr_key, "") ELSE ""
        name == JoinStrip(Strip(first0), Strip(last0))
    IN  [ok |-> first0 # "None" /\ last0 # "None",
         email |-> email, name |-> name]

(* The extraction both strategies share; .strip() of a json null raises. *)
ExtractEmailAndName(instance, data) ==
    LET email == DictGet(data, instance.email_attr_key, "None")
        first0 == DictGet(data, instance.first_name_attr_key, "")
        last0 == IF instance.last_name_attr_key # ""
                 THEN DictGet(data, instance.last_name_attr_key, "") ELSE ""
        name == JoinStrip(Strip(first0), Strip(last0))
    IN  [ok |-> first0 # "None" /\ last0 # "None",
         email |-> email, name |-> IF name = "" THEN email ELSE name]

GetUserInfoFromUserInfoEndpoint(instance, oauth_response_data) ==
    ExtractEmailAndName(instance, oauth_response_data)

(* get_user_info_from_id_token: the key, then jwt.decode, which raises its *)
(* own exceptions on a bad signature, audience or issuer.                  *)
GetUserInfoFromIdToken(id_token, entry, up, fs) ==
    LET k == GetVerifyingKey(entry, up, id_token.hdr, fs, TRUE)
    IN  IF k.kind # "key" THEN k
        ELSE IF ~id_token.sigOk
        THEN [k EXCEPT !.kind = "RawError", !.stage = "jwt_decode"]
        ELSE [k EXCEPT !.kind = "claims", !.stage = "verified"]

(* Mutant: without an id_token the user-info endpoint's answer is used. *)
OidcGetUserInfoFallback(instance, sess, entry, up, tokenResp, userResp, fs) ==
    LET use_id_token == instance.use_id_token
        r == GetOauthTokenAndResponse(sess, tokenResp, userResp)
        token == The(r.token)
        idtok == use_id_token /\ token.id_token # Absent
        v == GetUserInfoFromIdToken(The(token.id_token), entry, up, fs)
        popped == PopRequestDataFromSession(r.session)
        en == IF idtok
              THEN ExtractEmailAndName(instance, The(token.id_token).claims)
              ELSE GetUserInfoFromUserInfoEndpoint(instance, The(r.json))
        counted == [Outcome(r.session, entry) EXCEPT
                      !.tokenReqs = r.tokenReqs,
                      !.userInfoReqs = r.userInfoReqs]
        verified == IF idtok
                    THEN [counted EXCEPT !.entry = v.entry,
                            !.lookups = v.lookups, !.fetches = v.fetches,
                            !.invalidations = v.invalidations,
                            !.errKid = v.errKid]
                    ELSE counted
    IN  IF ~r.ok THEN TokenFailure(r, entry)
        ELSE IF idtok /\ v.kind # "claims"
        THEN [verified EXCEPT !.kind = v.kind, !.stage = v.stage]
        ELSE IF ~en.ok
        THEN [verified EXCEPT !.kind = "RawError", !.stage = "parse_user_info"]
        ELSE [verified EXCEPT !.kind = "UserInfo", !.stage = "done",
                !.session = popped.session,
                !.userInfo = Some(MakeUserInfo(en.name, en.email, popped.data))]

(* OpenIdConnectAuthProviderTypeMixin.get_user_info. *)
OidcGetUserInfo(instance, sess, entry, up, tokenResp, userResp, fs) ==
    LET use_id_token == instance.use_id_token
        r == GetOauthTokenAndResponse(sess, tokenResp, userResp)
        token == The(r.token)
        v == GetUserInfoFromIdToken(The(token.id_token), entry, up, fs)
        popped == PopRequestDataFromSession(r.session)
        en == IF use_id_token
              THEN ExtractEmailAndName(instance, The(token.id_token).claims)
              ELSE GetUserInfoFromUserInfoEndpoint(instance, The(r.json))
        counted == [Outcome(r.session, entry) EXCEPT
                      !.tokenReqs = r.tokenReqs,
                      !.userInfoReqs = r.userInfoReqs]
        verified == IF use_id_token
                    THEN [counted EXCEPT !.entry = v.entry,
                            !.lookups = v.lookups, !.fetches = v.fetches,
                            !.invalidations = v.invalidations,
                            !.errKid = v.errKid]
                    ELSE counted
    IN  IF ~r.ok THEN TokenFailure(r, entry)
        ELSE IF use_id_token /\ token.id_token = Absent
        THEN [counted EXCEPT !.kind = "AuthFlowError",
                             !.stage = "id_token_missing"]
        ELSE IF use_id_token /\ v.kind # "claims"
        THEN [verified EXCEPT !.kind = v.kind, !.stage = v.stage]
        ELSE IF ~en.ok
        THEN [verified EXCEPT !.kind = "RawError", !.stage = "parse_user_info"]
        ELSE [verified EXCEPT !.kind = "UserInfo", !.stage = "done",
                !.session = popped.session,
                !.userInfo = Some(MakeUserInfo(en.name, en.email, popped.data))]

(***************************************************************************)
(* The login flow of one browser session.                                  *)
(***************************************************************************)
NoCall ==
    [op |-> "none", type |-> "none", use_id_token |-> FALSE,
     storedBefore |-> Absent, reqBefore |-> Absent, presented |-> 0,
     urlState |-> 0, generated |-> FALSE, cachedBefore |-> Absent,
     jwks_url |-> "none",
     query_params |-> Absent, after |-> "none",
     up |-> {}, hdr |-> "none", hasIdToken |-> FALSE, coop |-> FALSE,
     tokenOk |-> FALSE, discoveryReqs |-> 0, data |-> {},
     lastNameKey |-> "", emails |-> <<>>, kind |-> "none", stage |-> "none",
     tokenReqs |-> 0, userInfoReqs |-> 0, emailReqs |-> 0,
     lookups |-> 0, fetches |-> 0, invalidations |-> 0,
     userInfo |-> Absent, errKid |-> Absent]

Procs == {"r1", "r2"}

IdleProc ==
    [pc |-> "idle", url |-> "u1", kid |-> "k1", retry_on_fail |-> TRUE,
     jwks |-> Absent, inflight |-> Absent, lookups |-> 0, fetches |-> 0,
     invalidations |-> 0, result |-> "none", stable |-> FALSE]

ProviderIds == {1, 2}

NoCfgCall ==
    [op |-> "none", id |-> 0, requests |-> 0, resp |-> Absent,
     error |-> "none", before |-> [i \in ProviderIds |-> Absent],
     values |-> {}]

InitSso ==
    /\ session = EmptySession
    /\ gen = 0
    /\ consumed = [s \in States |-> 0]
    /\ call = NoCall
    /\ cache = [k \in CacheKeys |-> Absent]
    /\ upstream = [u \in Urls |-> {"k1"}]
    /\ procs = [p \in Procs |-> IdleProc]
    /\ providers = [i \in ProviderIds |-> Absent]
    /\ cfgCall = NoCfgCall

(***************************************************************************)
(* The rows of the builder, automation and database applications.          *)
(***************************************************************************)
DomainIds == {1, 2}

(* The highest id a Builder row is given in a run. *)
MaxBuilderId == 4
BuilderIds == 1 .. MaxBuilderId

(* The builder a page designer works on; its publications are clones. *)
SourceBuilder == 1

(* The requests that publish concurrently, each in its own transaction. *)
Publishers == {"p1", "p2"}

(* A request that is not publishing; last is the clone its last publish    *)
(* created and lastDomain the domain it published.                         *)
IdlePublisher ==
    [pc |-> "idle", domain_id |-> 0, domain |-> Absent,
     duplicate_builder |-> 0, last |-> 0, lastDomain |-> 0]

(* No user source operation yet.  before is the publication of the domain *)
(* that a publish replaced and imported what its import created.           *)
NoUsCall ==
    [op |-> "none", domain |-> 0, before |-> Absent, imported |-> <<>>]

NoDomCall ==
    [op |-> "none", domain_name |-> "", domain |-> 0, error |-> "none",
     result |-> Absent, errorName |-> "", before |-> <<>>]

InitBuilder ==
    /\ domains = [d \in DomainIds |-> Absent]
    /\ builders = [b \in BuilderIds |->
                      IF b = SourceBuilder
                      THEN Some([published_from |-> Absent, trashed |-> FALSE])
                      ELSE Absent]
    /\ workspace = [trashed |-> FALSE]
    /\ builderSeq = SourceBuilder
    /\ domCall = NoDomCall
    /\ pubs = [p \in Publishers |-> IdlePublisher]
    /\ rowLocks = [d \in DomainIds |-> Absent]
    /\ userSources = [original |-> <<>>,
                      published |-> [d \in DomainIds |-> Absent]]
    /\ uuidSeq = 0
    /\ usCall = NoUsCall

(* The highest id an AutomationWorkflow row is given in a run. *)
MaxWorkflowId == 2
WorkflowIds == 1 .. MaxWorkflowId

NoWfCall ==
    [op |-> "none", user |-> "none", automation |-> 0, workflow |-> 0,
     error |-> "none", result |-> Absent,
     before |-> [w \in WorkflowIds |-> Absent]]

InitWorkflows ==
    /\ workflows = [w \in WorkflowIds |-> Absent]
    /\ wfSeq = 0
    /\ wfCall = NoWfCall

(* The highest id a field of the table is given in a run. *)
MaxFieldId == 4
FieldIds == 1 .. MaxFieldId

(* The table of local_baserow_get_context_data_fixture: a text field and   *)
(* a single select field.                                                  *)
FixtureFields ==
    {[id |-> 1, type |-> "text"], [id |-> 2, type |-> "single_select"]}

(* What a call remembers of the operation made right before it. *)
NoPrevCall == [op |-> "none", allowed_fields |-> Absent, hit |-> FALSE]

NoSvcCall ==
    [op |-> "none", allowed_fields |-> Absent, result |-> {},
     added |-> Absent, hit |-> FALSE, prev |-> NoPrevCall]

InitService ==
    /\ table = [fields |-> FixtureFields, version |-> 1]
    /\ svcCache = {}
    /\ svcCall = NoSvcCall

(* _is_url_already_loaded = False when the module is imported. *)
InitUrls ==
    /\ isUrlAlreadyLoaded = FALSE
    /\ urlCalls = <<>>
    /\ flow = <<>>

Init ==
    InitSso /\ InitBuilder /\ InitWorkflows /\ InitService /\ InitUrls

(* Mutant: an OIDC provider's endpoints are discovered again at login. *)
GetEndpointUrlsDiscover(inst) ==
    [source |-> CASE inst.type = "openid_connect" -> "discovery"
                  [] inst.type = "gitlab" -> "template"
                  [] OTHER -> "constant",
     jwks_url |-> inst.jwks_url,
     discoveryReqs |-> IF inst.type = "openid_connect" THEN 1 ELSE 0,
     error |-> "none"]

(* get_base_url, get_access_token_url, get_user_info_url, get_jwks_url:    *)
(* class constants, a template over instance.base_url (GitLab), or the     *)
(* fields that create and update stored on the record (OIDC).  None of     *)
(* them asks the provider.                                                 *)
GetEndpointUrls(inst) ==
    [source |-> CASE inst.type = "openid_connect" -> "record"
                  [] inst.type = "gitlab" -> "template"
                  [] OTHER -> "constant",
     jwks_url |-> inst.jwks_url,
     discoveryReqs |-> 0,
     error |-> "none"]

LoginUrls == {i.jwks_url : i \in {j \in Instances : j.type = "openid_connect"}}

(* The login view: provider type's get_authorization_url on the session. *)
LoginStep(inst, query_params) ==
    LET r == IF inst.type = "facebook"
             THEN FacebookGetAuthorizationUrl(session, gen, query_params)
             ELSE GetAuthorizationUrl(session, gen, query_params)
        ep == GetEndpointUrls(inst)
    IN  /\ r.generated => gen < MaxGen
        /\ session' = r.session
        /\ gen' = IF r.generated THEN gen + 1 ELSE gen
        /\ call' = [NoCall EXCEPT
                        !.op = "get_authorization_url", !.type = inst.type,
                        !.use_id_token = inst.use_id_token,
                        !.storedBefore = session.oauth_state,
                        !.reqBefore = session.oauth_request_data,
                        !.urlState = r.state, !.generated = r.generated,
                        !.discoveryReqs = ep.discoveryReqs,
                        !.kind = IF ep.error # "none" THEN ep.error
                                 ELSE "url"]
        /\ UNCHANGED <<consumed, cache, upstream, procs, providers, cfgCall>>
        /\ UNCHANGED <<builderVars, workflowVars, serviceVars, urlVars>>

Login(inst, query_params) ==
    LoginStep(inst, query_params) /\ UNCHANGED flowVars

(* Whether every party outside the program answers as a working provider   *)
(* does for a valid login.                                                 *)
Cooperating(inst, up, tokenResp, userResp, emailResp, fs) ==
    /\ tokenResp # Absent
    /\ userResp = Some(UserJson)
    /\ inst.type = "github" => emailResp # Absent
    /\ (inst.type = "openid_connect" /\ inst.use_id_token) =>
          /\ The(tokenResp).id_token # Absent
          /\ The(The(tokenResp).id_token).hdr \in up
          /\ The(The(tokenResp).id_token).sigOk
          /\ fs = <<"ok", "ok">>

GetUserInfo(inst, sess, entry, up, tokenResp, userResp, emailResp, fs) ==
    CASE inst.type = "github" ->
            GitHubGetUserInfo(sess, entry, tokenResp, userResp, emailResp)
      [] inst.type = "openid_connect" ->
            OidcGetUserInfo(inst, sess, entry, up, tokenResp, userResp, fs)
      [] OTHER -> BaseGetUserInfo(sess, entry, tokenResp, userResp)

(* The callback view: the provider redirects the browser back with a code  *)
(* and a state; get_user_info is handed the code and the session.          *)
CallbackStep(inst, presented, tokenResp, userResp, emailResp, fs) ==
    LET idtok == inst.type = "openid_connect" /\ inst.use_id_token
        ep == GetEndpointUrls(inst)
        url == IF idtok THEN ep.jwks_url ELSE "u1"
        cache_key == JwksCacheKey(url)
        r == GetUserInfo(inst, session, cache[cache_key], upstream[url],
                         tokenResp, userResp, emailResp, fs)
        popped == GetOauthSession(session).state
        hasId == tokenResp # Absent /\ The(tokenResp).id_token # Absent
    IN  /\ session' = r.session
        /\ cache' = [cache EXCEPT ![cache_key] = r.entry]
        /\ consumed' = IF popped = Absent THEN consumed
                       ELSE [consumed EXCEPT ![The(popped)] =
                                IF @ < 2 THEN @ + 1 ELSE @]
        /\ call' = [op |-> "get_user_info", type |-> inst.type,
                    use_id_token |-> inst.use_id_token,
                    storedBefore |-> session.oauth_state,
                    reqBefore |-> session.oauth_request_data,
                    presented |-> presented,
                    urlState |-> 0, generated |-> FALSE,
                    cachedBefore |-> IF idtok THEN cache[cache_key]
                                    ELSE Absent,
                    jwks_url |-> IF idtok THEN url ELSE "none",
                    query_params |-> Absent, after |-> "none",
                    up |-> IF idtok THEN upstream[url] ELSE {},
                    hdr |-> IF idtok /\ hasId
                            THEN The(The(tokenResp).id_token).hdr ELSE "none",
                    hasIdToken |-> hasId,
                    tokenOk |-> tokenResp # Absent,
                    discoveryReqs |-> ep.discoveryReqs,
                    data |-> IF idtok /\ hasId
                             THEN The(The(tokenResp).id_token).claims
                             ELSE IF userResp # Absent THEN The(userResp)
                             ELSE {},
                    lastNameKey |-> inst.last_name_attr_key,
                    emails |-> IF inst.type = "github" /\ emailResp # Absent
                               THEN The(emailResp) ELSE <<>>,
                    coop |-> Cooperating(inst, upstream[url], tokenResp,
                                         userResp, emailResp, fs),
                    kind |-> IF ep.error # "none" THEN ep.error ELSE r.kind,
                    stage |-> r.stage,
                    tokenReqs |-> r.tokenReqs,
                    userInfoReqs |-> r.userInfoReqs,
                    emailReqs |-> r.emailReqs,
                    lookups |-> r.lookups, fetches |-> r.fetches,
                    invalidations |-> r.invalidations,
                    userInfo |-> r.userInfo, errKid |-> r.errKid]
        /\ UNCHANGED <<gen, upstream, procs, providers, cfgCall>>
        /\ UNCHANGED <<builderVars, workflowVars, serviceVars, urlVars>>

Callback(inst, presented, tokenResp, userResp, emailResp, fs) ==
    /\ CallbackStep(inst, presented, tokenResp, userResp, emailResp, fs)
    /\ UNCHANGED flowVars

(* The provider rotates its signing keys. *)
RotateKeys(u) ==
    /\ upstream' = [upstream EXCEPT ![u] = CHOOSE ks \in KeySets : ks # @]
    /\ procs' = [p \in Procs |->
                    IF procs[p].url = u /\ procs[p].pc \notin {"idle", "done"}
                    THEN [procs[p] EXCEPT !.stable = FALSE] ELSE procs[p]]
    /\ UNCHANGED <<session, gen, consumed, call, cache, providers, cfgCall>>
    /\ UNCHANGED <<builderVars, workflowVars, serviceVars, urlVars, flowVars>>

(* A cache entry reaches its timeout. *)
Expire(u) ==
    /\ cache[JwksCacheKey(u)] # Absent
    /\ cache' = [cache EXCEPT ![JwksCacheKey(u)] = Absent]
    /\ UNCHANGED <<session, gen, consumed, call, upstream, procs, providers,
                   cfgCall>>
    /\ UNCHANGED <<builderVars, workflowVars, serviceVars, urlVars, flowVars>>

(***************************************************************************)
(* Spec: logins of one browser session with every provider type.  The      *)
(* provider's key set is fixed here; SpecOidc varies it.                   *)
(***************************************************************************)
IsIdToken(inst) == inst.type = "openid_connect" /\ inst.use_id_token

FlowIdTokens ==
    {[hdr |-> h, sigOk |-> TRUE, claims |-> IdClaims] :
        h \in {"k1", "k2", "undecodable"}}
    \cup {[hdr |-> "k1", sigOk |-> FALSE, claims |-> IdClaims]}

TokenInputs(inst) ==
    {Absent, Some([id_token |-> Absent])}
        \cup IF IsIdToken(inst)
             THEN {Some([id_token |-> Some(t)]) : t \in FlowIdTokens}
             ELSE {}

EmailInputs(inst) ==
    IF inst.type = "github" THEN EmailResponses ELSE {Some(PrimaryOnly)}

FetchInputs(inst) ==
    IF IsIdToken(inst) THEN {<<"ok", "ok">>, <<"fail", "fail">>}
    ELSE {<<"ok", "ok">>}

(* The provider types whose callback code differs: the mixin's (Google;    *)
(* GitLab and Facebook override only urls and the authorization url),      *)
(* GitHub's and OpenID Connect's.                                          *)
CallbackInstances == {i \in Instances : i.type \notin {"gitlab", "facebook"}}

Next ==
    \/ \E inst \in Instances, q \in QueryParams : Login(inst, q)
    \/ \E inst \in CallbackInstances, presented \in Presented :
         \E tokenResp \in TokenInputs(inst), userResp \in UserResponses,
            emailResp \in EmailInputs(inst), fs \in FetchInputs(inst) :
              Callback(inst, presented, tokenResp, userResp, emailResp, fs)
    \/ \E u \in LoginUrls : Expire(u)

Spec == Init /\ [][Next]_vars

(***************************************************************************)
(* SpecOidc: logins with the OIDC provider that reads the ID token, with   *)
(* key rotation, cache expiry and every upstream answer.                   *)
(***************************************************************************)
OidcIdToken == Instance("openid_connect", TRUE, "u1", LastNameAttrKey)

NextOidc ==
    \/ Login(OidcIdToken, Some(Q1))
    \/ \E tokenResp \in TokenResponses,
          fs \in FetchOutcomes \X FetchOutcomes :
            Callback(OidcIdToken, 1, tokenResp, Some(UserJson),
                     Some(PrimaryOnly), fs)
    \/ RotateKeys("u1")
    \/ Expire("u1")

SpecOidc == Init /\ [][NextOidc]_vars

(***************************************************************************)
(* Properties of the login flow.                                           *)
(***************************************************************************)
IsCallback == call.op = "get_user_info"
Failed == IsCallback /\ call.kind # "UserInfo"

(* C1: a callback on a session that holds no 'oauth_state' fails with      *)
(* AuthFlowError, makes no token request and returns no UserInfo.          *)
C1_NoStoredStateFails ==
    (IsCallback /\ call.storedBefore = Absent) =>
        /\ call.kind = "AuthFlowError"
        /\ call.tokenReqs = 0
        /\ call.userInfo = Absent

(* C2: with a CSRF state stored by get_authorization_url, a callback that  *)
(* presents that state succeeds when the provider cooperates, and one that *)
(* presents any other state fails with AuthFlowError.                      *)
C2_StateMustMatch ==
    (IsCallback /\ call.storedBefore # Absent) =>
        /\ (call.presented = The(call.storedBefore) /\ call.coop) =>
                call.kind = "UserInfo"
        /\ call.presented # The(call.storedBefore) =>
                call.kind = "AuthFlowError"

(* The half of C2 the code does satisfy: the matching state succeeds. *)
C2_SameStateSucceeds ==
    (IsCallback /\ call.storedBefore # Absent
        /\ call.presented = The(call.storedBefore) /\ call.coop) =>
            call.kind = "UserInfo"

(* C4: a callback ends with a UserInfo or with AuthFlowError, never with   *)
(* another exception.                                                      *)
C4_OnlyAuthFlowError ==
    IsCallback => call.kind \in {"UserInfo", "AuthFlowError"}

FailureSites ==
    {"token_exchange", "user_info", "emails", "id_token_missing",
     "jwks_fetch", "jwt_header", "jwks_keys", "key_lookup", "jwt_decode"}

C6_StateConsumedOnce ==
    /\ IsCallback => session.oauth_state = Absent
    /\ \A s \in States : consumed[s] <= 1

C6_Witness ==
    /\ IsCallback
    /\ call.storedBefore # Absent
    /\ call.kind = "AuthFlowError"
    /\ consumed[The(call.storedBefore)] = 1

(* C9: every get_authorization_url call generates a new state, which it    *)
(* stores and returns and which differs from the state found stored.       *)
C9_FreshState ==
    call.op = "get_authorization_url" =>
        /\ call.generated
        /\ session.oauth_state = Some(call.urlState)
        /\ call.storedBefore # Absent =>
                call.urlState # The(call.storedBefore)

(* C10: an OIDC provider with use_id_token whose token response has no     *)
(* id_token fails with AuthFlowError before any JWKS lookup or fetch.      *)
C10_MissingIdToken ==
    (IsCallback /\ call.type = "openid_connect" /\ call.use_id_token
        /\ call.stage # "token_exchange" /\ ~call.hasIdToken) =>
            /\ call.kind = "AuthFlowError"
            /\ call.lookups = 0
            /\ call.fetches = 0
            /\ call.userInfo = Absent

C10_Witness ==
    /\ IsCallback
    /\ call.type = "openid_connect"
    /\ call.use_id_token
    /\ ~call.hasIdToken
    /\ call.stage = "id_token_missing"
    /\ call.kind = "AuthFlowError"

(* C3: a token whose kid is absent from the cached JWKS causes exactly one *)
(* invalidation and one refetch (two lookups); when the refetch returns a  *)
(* key set, a kid still absent fails with AuthFlowError naming the kid and *)
(* a kid now present yields the key, and verification goes on.             *)
KidMissedInCache ==
    /\ IsCallback
    /\ call.hdr \in Kids
    /\ call.cachedBefore # Absent
    /\ The(call.cachedBefore).wellformed
    /\ call.hdr \notin The(call.cachedBefore).keys

C3_KeyRotationRetry ==
    KidMissedInCache =>
        /\ call.invalidations = 1
        /\ call.fetches = 1
        /\ call.lookups = 2
        /\ call.stage \notin {"jwks_fetch", "jwks_keys"} =>
              IF call.hdr \in call.up
              THEN call.stage \in {"done", "jwt_decode"} /\ call.errKid = Absent
              ELSE /\ call.kind = "AuthFlowError"
                   /\ call.stage = "key_lookup"
                   /\ call.errKid = Some(call.hdr)

C3_Witness ==
    /\ KidMissedInCache
    /\ call.hdr \in call.up
    /\ call.kind = "UserInfo"
    /\ call.invalidations = 1
    /\ call.fetches = 1

C3_WitnessStillAbsent ==
    /\ KidMissedInCache
    /\ call.hdr \notin call.up
    /\ call.errKid = Some(call.hdr)

(* Whether the last callback got as far as _get_verifying_key. *)
ResolvedKey ==
    /\ IsCallback
    /\ call.type = "openid_connect"
    /\ call.use_id_token
    /\ call.hasIdToken
    /\ call.stage \notin {"token_exchange", "user_info"}

(* C11: one key resolution ends, with a key or an error, after at most two *)
(* cache lookups, hence at most two upstream fetches, and at most one      *)
(* invalidation; the second lookup happens only after the invalidation.    *)
C11_BoundedRetry ==
    ResolvedKey =>
        /\ call.kind \in {"UserInfo", "AuthFlowError", "RawError"}
        /\ call.lookups \in {1, 2}
        /\ call.fetches <= call.lookups
        /\ call.invalidations = call.lookups - 1

C11_Witness ==
    /\ ResolvedKey
    /\ call.lookups = 2
    /\ call.fetches = 2
    /\ call.invalidations = 1
    /\ call.stage = "key_lookup"

(* C12: for an OIDC provider the strategies exclude each other: with      *)
(* use_id_token no request goes to the user-info endpoint, so that         *)
(* endpoint cannot fail the login; without it no JWKS lookup or fetch is   *)
(* made.                                                                   *)
C12_StrategiesExclusive ==
    (IsCallback /\ call.type = "openid_connect") =>
        /\ call.use_id_token =>
                call.userInfoReqs = 0 /\ call.stage # "user_info"
        /\ ~call.use_id_token =>
                call.lookups = 0 /\ call.fetches = 0 /\ call.invalidations = 0

(* The half of C12 the code does satisfy. *)
C12_NoJwksWithoutIdToken ==
    (IsCallback /\ ~call.use_id_token) =>
        call.lookups = 0 /\ call.fetches = 0 /\ call.invalidations = 0

(* C13: a UserInfo is returned only to a session that was issued a login   *)
(* redirect, for a callback that found the state of that redirect stored   *)
(* and whose token exchange succeeded.                                     *)
C13_OrderedFlow ==
    (IsCallback /\ call.kind = "UserInfo") =>
        /\ gen > 0
        /\ call.storedBefore # Absent
        /\ call.tokenReqs = 1
        /\ call.tokenOk

(* The half of C13 the code does satisfy. *)
C13_TokenExchangedFirst ==
    (IsCallback /\ call.kind = "UserInfo") =>
        call.tokenReqs = 1 /\ call.tokenOk

(* C14: get_authorization_url and get_user_info of any provider type make  *)
(* no discovery request and never end in InvalidProviderUrl, which is      *)
(* left to create and update.                                              *)
C14_NoDiscoveryAtLogin ==
    call.op \in {"get_authorization_url", "get_user_info"} =>
        /\ call.discoveryReqs = 0
        /\ call.kind # "InvalidProviderUrl"

C14_Witness ==
    /\ IsCallback
    /\ call.type = "openid_connect"
    /\ call.use_id_token
    /\ call.kind = "UserInfo"
    /\ call.fetches = 1
    /\ call.discoveryReqs = 0

C14_WitnessLogin ==
    /\ call.op = "get_authorization_url"
    /\ call.type = "openid_connect"
    /\ call.kind = "url"

(***************************************************************************)
(* SpecConfig: creating and updating generic OIDC provider records.        *)
(***************************************************************************)
BaseUrls == {"b1", "b2"}
Names == {"n1", "n2"}

DiscoveryKeys ==
    {"authorization_endpoint", "token_endpoint", "userinfo_endpoint",
     "jwks_uri", "issuer"}

(* The well-known document a working provider serves at base_url. *)
FullDoc(base_url) ==
    {<<"authorization_endpoint", base_url \o "/auth">>,
     <<"token_endpoint", base_url \o "/token">>,
     <<"userinfo_endpoint", base_url \o "/userinfo">>,
     <<"jwks_uri", base_url \o "/jwks">>,
     <<"issuer", base_url>>}

(* What the discovery request may come back with: an exception (the host   *)
(* is unreachable, the body is not json), a document lacking an endpoint,  *)
(* or the full document.                                                   *)
DiscoveryResponses(base_url) ==
    {Absent, Some(FullDoc(base_url)),
     Some({p \in FullDoc(base_url) : p[1] # "jwks_uri"})}

HasKey(d, k) == \E p \in d : p[1] = k

DictUpdate(d, values) ==
    {p \in d : ~HasKey(values, p[1])} \cup values

(* asdict(WellKnownUrls(...)) *)
WellKnownUrls(json_response) ==
    {<<"authorization_url", DictGet(json_response, "authorization_endpoint", "")>>,
     <<"access_token_url", DictGet(json_response, "token_endpoint", "")>>,
     <<"user_info_url", DictGet(json_response, "userinfo_endpoint", "")>>,
     <<"jwks_url", DictGet(json_response, "jwks_uri", "")>>,
     <<"issuer", DictGet(json_response, "issuer", "")>>}

(* get_wellknown_urls: Absent stands for InvalidProviderUrl. *)
GetWellknownUrls(resp) ==
    IF resp = Absent \/ \E k \in DiscoveryKeys : ~HasKey(The(resp), k)
    THEN Absent
    ELSE Some(WellKnownUrls(The(resp)))

(* AuthProviderType.create / update: the record is stored with the fields  *)
(* given; an update sets the fields given and keeps the others.            *)
SuperCreate(store, id, values) == [store EXCEPT ![id] = Some(values)]
SuperUpdate(store, id, values) ==
    [store EXCEPT ![id] = Some(DictUpdate(The(store[id]), values))]

(* OpenIdConnectAuthProviderTypeMixin.create *)
OidcCreate(store, id, values, resp) ==
    LET urls == GetWellknownUrls(resp)
    IN  IF urls = Absent
        THEN [error |-> "InvalidProviderUrl", requests |-> 1, store |-> store]
        ELSE [error |-> "none", requests |-> 1,
              store |-> SuperCreate(store, id, DictUpdate(values, The(urls)))]

(* Mutant: the given values are saved before discovery is attempted. *)
OidcUpdateSaveFirst(store, id, values, resp) ==
    LET urls == GetWellknownUrls(resp)
        saved == SuperUpdate(store, id, values)
    IN  IF DictGet(values, "base_url", "") = ""
        THEN [error |-> "none", requests |-> 0, store |-> saved]
        ELSE IF urls = Absent
        THEN [error |-> "InvalidProviderUrl", requests |-> 1, store |-> saved]
        ELSE [error |-> "none", requests |-> 1,
              store |-> SuperUpdate(saved, id, The(urls))]

(* Mutant: an update discovers the endpoints whatever values it is given. *)
OidcUpdateAlwaysDiscovers(store, id, values, resp) ==
    LET urls == GetWellknownUrls(resp)
    IN  IF urls = Absent
        THEN [error |-> "InvalidProviderUrl", requests |-> 1, store |-> store]
        ELSE [error |-> "none", requests |-> 1,
              store |-> SuperUpdate(store, id, DictUpdate(values, The(urls)))]

(* OpenIdConnectAuthProviderTypeMixin.update *)
OidcUpdate(store, id, values, resp) ==
    LET urls == GetWellknownUrls(resp)
    IN  IF DictGet(values, "base_url", "") = ""
        THEN [error |-> "none", requests |-> 0,
              store |-> SuperUpdate(store, id, values)]
        ELSE IF urls = Absent
        THEN [error |-> "InvalidProviderUrl", requests |-> 1, store |-> store]
        ELSE [error |-> "none", requests |-> 1,
              store |-> SuperUpdate(store, id, DictUpdate(values, The(urls)))]

CreateValues ==
    {{<<"name", n>>, <<"base_url", b>>} : n \in Names, b \in BaseUrls}

UpdateValues ==
    {{<<"name", n>>} : n \in Names}
        \cup {{<<"base_url", b>>} : b \in BaseUrls \cup {""}}
        \cup {{<<"name", "n1">>, <<"base_url", b>>} : b \in BaseUrls}

Create(id, values, resp) ==
    LET r == OidcCreate(providers, id, values, resp)
    IN  /\ providers[id] = Absent
        /\ \A j \in ProviderIds : j < id => providers[j] # Absent
        /\ providers' = r.store
        /\ cfgCall' = [op |-> "create", id |-> id, requests |-> r.requests,
                       resp |-> resp, error |-> r.error, before |-> providers,
                       values |-> values]
        /\ UNCHANGED <<session, gen, consumed, call, cache, upstream, procs>>
        /\ UNCHANGED <<builderVars, workflowVars, serviceVars,
                       urlVars, flowVars>>

Update(id, values, resp) ==
    LET r == OidcUpdate(providers, id, values, resp)
    IN  /\ providers[id] # Absent
        /\ providers' = r.store
        /\ cfgCall' = [op |-> "update", id |-> id, requests |-> r.requests,
                       resp |-> IF r.requests = 0 THEN Absent ELSE resp,
                       error |-> r.error, before |-> providers,
                       values |-> values]
        /\ UNCHANGED <<session, gen, consumed, call, cache, upstream, procs>>
        /\ UNCHANGED <<builderVars, workflowVars, serviceVars,
                       urlVars, flowVars>>

NextConfig ==
    \/ \E id \in ProviderIds, values \in CreateValues :
         \E resp \in DiscoveryResponses(DictGet(values, "base_url", "")) :
            Create(id, values, resp)
    \/ \E id \in ProviderIds, values \in UpdateValues :
         \E resp \in DiscoveryResponses(DictGet(values, "base_url", "")) :
            Update(id, values, resp)

SpecConfig == Init /\ [][NextConfig]_vars

(* Whether the discovery request of the last call came back unusable. *)
DiscoveryFailed ==
    /\ cfgCall.requests = 1
    /\ \/ cfgCall.resp = Absent
       \/ \E k \in DiscoveryKeys : ~HasKey(The(cfgCall.resp), k)

(* C7: when discovery fails, create and update raise InvalidProviderUrl    *)
(* and the stored providers are as before: a create stored no record, an   *)
(* update changed no field.                                                *)
C7_DiscoveryFailureMutatesNothing ==
    DiscoveryFailed =>
        /\ cfgCall.error = "InvalidProviderUrl"
        /\ providers = cfgCall.before

C7_Witness ==
    /\ DiscoveryFailed
    /\ cfgCall.op = "update"
    /\ cfgCall.resp # Absent
    /\ cfgCall.error = "InvalidProviderUrl"
    /\ providers[cfgCall.id] # Absent

C7_WitnessCreate ==
    /\ DiscoveryFailed
    /\ cfgCall.op = "create"
    /\ providers[cfgCall.id] = Absent

(* The stored field each key of the discovery document is saved as. *)
DiscoveredFields ==
    {<<"authorization_url", "authorization_endpoint">>,
     <<"access_token_url", "token_endpoint">>,
     <<"user_info_url", "userinfo_endpoint">>,
     <<"jwks_url", "jwks_uri">>,
     <<"issuer", "issuer">>}

(* C27: a create always makes the discovery request; an update makes it    *)
(* exactly when it is given a non-empty base_url.  An update without one   *)
(* leaves the five stored endpoint fields as they were, and a successful   *)
(* update with one stores in all five what the discovery document holds.   *)
C27_DiscoveryOnBaseUrl ==
    LET supplied == DictGet(cfgCall.values, "base_url", "")
        stored == The(providers[cfgCall.id])
        old == The(cfgCall.before[cfgCall.id])
    IN  /\ cfgCall.op = "create" => cfgCall.requests = 1
        /\ cfgCall.op = "update" =>
              /\ cfgCall.requests = (IF supplied = "" THEN 0 ELSE 1)
              /\ supplied = "" =>
                    /\ cfgCall.error = "none"
                    /\ \A f \in DiscoveredFields :
                          DictGet(stored, f[1], "") = DictGet(old, f[1], "")
              /\ (supplied # "" /\ cfgCall.error = "none") =>
                    \A f \in DiscoveredFields :
                       /\ HasKey(The(cfgCall.resp), f[2])
                       /\ DictGet(stored, f[1], "") =
                             DictGet(The(cfgCall.resp), f[2], "")

(* A provider discovered at b1 is updated with base_url b2. *)
C27_Witness ==
    /\ cfgCall.op = "update"
    /\ cfgCall.error = "none"
    /\ DictGet(cfgCall.values, "base_url", "") = "b2"
    /\ DictGet(The(cfgCall.before[cfgCall.id]), "jwks_url", "") = "b1/jwks"
    /\ DictGet(The(providers[cfgCall.id]), "jwks_url", "") = "b2/jwks"
    /\ DictGet(The(providers[cfgCall.id]), "issuer", "") = "b2"

(* A provider is renamed, or given an empty base_url, without discovery. *)
C27_WitnessNoBaseUrl ==
    /\ cfgCall.op = "update"
    /\ cfgCall.requests = 0
    /\ HasKey(cfgCall.values, "base_url")
    /\ DictGet(The(providers[cfgCall.id]), "base_url", "x") = ""
    /\ DictGet(The(providers[cfgCall.id]), "jwks_url", "") = "b1/jwks"

(***************************************************************************)
(* SpecSso: an administrator configures an OIDC provider while browsers    *)
(* log in through it and through GitHub.                                   *)
(***************************************************************************)
GitHub == Instance("github", FALSE, "none", "")

SsoValues == {{<<"name", "n1">>, <<"base_url", "b1">>}}
SsoUpdateValues == {{<<"name", "n2">>}, {<<"base_url", "b2">>}}

NextSso ==
    \/ \E inst \in {OidcIdToken, GitHub} : Login(inst, Some(Q1))
    \/ \E inst \in {OidcIdToken, GitHub} :
         \E tokenResp \in TokenInputs(inst),
            userResp \in {Absent, Some(UserJson)},
            emailResp \in EmailInputs(inst), fs \in FetchInputs(inst) :
              Callback(inst, 1, tokenResp, userResp, emailResp, fs)
    \/ \E values \in SsoValues :
         \E resp \in DiscoveryResponses(DictGet(values, "base_url", "")) :
            Create(1, values, resp)
    \/ \E values \in SsoUpdateValues :
         \E resp \in DiscoveryResponses(DictGet(values, "base_url", "")) :
            Update(1, values, resp)

SpecSso == Init /\ [][NextSso]_vars

(* C15: a callback makes one token request, and at most one user-info and  *)
(* one emails request; a failed token exchange ends it at once, before any *)
(* other request; a second JWKS fetch is made only as the key-rotation     *)
(* retry.  A create or update makes at most one discovery request, and a   *)
(* failed discovery ends it at once, with nothing stored.                  *)
C15_NoRetries ==
    /\ IsCallback =>
          /\ call.tokenReqs = 1
          /\ call.userInfoReqs <= 1
          /\ call.emailReqs <= 1
          /\ ~call.tokenOk =>
                /\ call.kind = "AuthFlowError"
                /\ call.stage = "token_exchange"
                /\ call.userInfoReqs = 0
                /\ call.emailReqs = 0
                /\ call.lookups = 0
                /\ call.fetches = 0
          /\ call.fetches <= 2
          /\ call.fetches = 2 => call.invalidations = 1
    /\ cfgCall.op # "none" =>
          /\ cfgCall.requests <= 1
          /\ DiscoveryFailed =>
                /\ cfgCall.error = "InvalidProviderUrl"
                /\ providers = cfgCall.before

C15_Witness ==
    /\ IsCallback
    /\ ~call.tokenOk
    /\ call.tokenReqs = 1
    /\ call.stage = "token_exchange"
    /\ DiscoveryFailed
    /\ cfgCall.op = "update"

C15_WitnessJwksRetry ==
    /\ IsCallback
    /\ call.fetches = 2
    /\ call.invalidations = 1

(***************************************************************************)
(* SpecName: logins through OIDC providers of both strategies, with and    *)
(* without a last-name key, against every shape of the name attributes.    *)
(***************************************************************************)
NameFirsts == {"", " ", "A", " A "}
NameLasts == {"", "B", " B"}

(* The user-info json or ID-token claims: each name attribute is missing   *)
(* or holds one of the strings above.                                      *)
NameData ==
    {{<<"email", "n@x">>} \cup f \cup l :
        f \in {{}} \cup {{<<"given_name", x>>} : x \in NameFirsts},
        l \in {{}} \cup {{<<"family_name", x>>} : x \in NameLasts}}

NameInstances ==
    {Instance("openid_connect", b, "u1", last) :
        b \in BOOLEAN, last \in {LastNameAttrKey, ""}}

NextName ==
    \/ \E inst \in NameInstances : Login(inst, Some(Q1))
    \/ \E inst \in NameInstances, d \in NameData :
         Callback(inst, 1,
                  Some([id_token |-> Some([hdr |-> "k1", sigOk |-> TRUE,
                            claims |-> IF inst.use_id_token THEN d
                                       ELSE IdClaims])]),
                  Some(IF inst.use_id_token THEN UserJson ELSE d),
                  Some(PrimaryOnly), <<"ok", "ok">>)

SpecName == Init /\ [][NextName]_vars

(* str.strip() of the name strings, written out. *)
Trimmed(s) ==
    CASE s \in {"", " "} -> ""
      [] s \in {"A", " A "} -> "A"
      [] s \in {"B", " B"} -> "B"

(* C16: the UserInfo of an OIDC login has the email found under the email  *)
(* key and, with f and l the trimmed values under the first- and last-name *)
(* keys (l empty when no last-name key is configured): the email as name   *)
(* when f and l are empty, f when only l is empty, l when only f is empty, *)
(* and 'f l' otherwise.                                                    *)
C16_DisplayName ==
    (IsCallback /\ call.type = "openid_connect" /\ call.kind = "UserInfo") =>
        LET f == Trimmed(DictGet(call.data, "given_name", ""))
            l == IF call.lastNameKey = "" THEN ""
                 ELSE Trimmed(DictGet(call.data, call.lastNameKey, ""))
            u == The(call.userInfo)
        IN  /\ u.email = DictGet(call.data, "email", "None")
            /\ (f = "" /\ l = "") => u.name = u.email
            /\ (f # "" /\ l = "") => u.name = f
            /\ (f = "" /\ l # "") => u.name = l
            /\ (f # "" /\ l # "") => u.name = f \o " " \o l

C16_Witness ==
    /\ IsCallback
    /\ call.use_id_token
    /\ call.kind = "UserInfo"
    /\ <<"given_name", " ">> \in call.data
    /\ <<"family_name", "">> \in call.data
    /\ The(call.userInfo).name = "n@x"

C16_WitnessFirstOnly ==
    /\ IsCallback
    /\ ~call.use_id_token
    /\ call.kind = "UserInfo"
    /\ call.lastNameKey = ""
    /\ <<"given_name", " A ">> \in call.data
    /\ <<"family_name", "B">> \in call.data
    /\ The(call.userInfo).name = "A"

(***************************************************************************)
(* SpecGitHub: GitHub logins against every answer of the emails endpoint.  *)
(***************************************************************************)
(* The longest list the emails endpoint returns in a run. *)
MaxEmails == 2

Addresses == {"a@x", "b@x"}
EmailEntries == [email : Addresses, primary : BOOLEAN]

RECURSIVE SeqsOf(_, _)
SeqsOf(S, n) ==
    IF n = 0 THEN {<<>>}
    ELSE LET shorter == SeqsOf(S, n - 1)
         IN  shorter \cup {Append(q, x) : q \in {r \in shorter : Len(r) = n - 1},
                                          x \in S}

GitHubEmailResponses ==
    {Absent} \cup {Some(l) : l \in SeqsOf(EmailEntries, MaxEmails)}

NextGitHub ==
    \/ Login(GitHub, Some(Q1))
    \/ \E emailResp \in GitHubEmailResponses :
         Callback(GitHub, 1, Some([id_token |-> Absent]), Some(UserJson),
                  emailResp, <<"ok", "ok">>)

SpecGitHub == Init /\ [][NextGitHub]_vars

C17_WitnessNoPrimary ==
    /\ IsCallback
    /\ call.type = "github"
    /\ call.kind = "UserInfo"
    /\ Len(call.emails) = 2
    /\ \A i \in 1 .. 2 : ~call.emails[i].primary
    /\ The(call.userInfo).email = call.emails[1].email

(***************************************************************************)
(* SpecJwks: ID-token key resolutions of concurrent requests sharing the   *)
(* JWKS cache.  _get_verifying_key is cut at its operations on the cache   *)
(* and at the upstream request: the cache is read, the JWKS is requested,  *)
(* the answer is stored, the entry is invalidated.                         *)
(***************************************************************************)
JwksUrls == {"u1"}

procVarsUnchanged ==
    UNCHANGED <<session, gen, consumed, call, providers, cfgCall,
                builderVars, workflowVars, serviceVars, urlVars, flowVars>>

(* A request starts _get_verifying_key(instance, id_token). *)
StartVerify(p, u, kid) ==
    /\ procs[p].pc \in {"idle", "done"}
    /\ procs' = [procs EXCEPT ![p] =
                    [IdleProc EXCEPT !.pc = "get", !.url = u, !.kid = kid,
                                     !.stable = kid \in upstream[u]]]
    /\ UNCHANGED <<cache, upstream>>
    /\ procVarsUnchanged

(* global_cache.get: the entry is read; a miss goes on to default(). *)
CacheRead(p) ==
    LET me == procs[p]
    IN  /\ me.pc = "get"
        /\ procs' = [procs EXCEPT ![p] =
                        IF cache[JwksCacheKey(me.url)] # Absent
                        THEN [me EXCEPT !.pc = "find",
                                        !.jwks = cache[JwksCacheKey(me.url)],
                                        !.lookups = @ + 1]
                        ELSE [me EXCEPT !.pc = "fetch", !.lookups = @ + 1]]
        /\ UNCHANGED <<cache, upstream>>
        /\ procVarsUnchanged

(* default(): requests.get(jwks_url, timeout=60).json() is answered. *)
UpstreamFetch(p, f) ==
    LET me == procs[p]
    IN  /\ me.pc = "fetch"
        /\ procs' = [procs EXCEPT ![p] =
                        IF f = "fail"
                        THEN [me EXCEPT !.pc = "done", !.fetches = @ + 1,
                                        !.result = "AuthFlowError:fetch"]
                        ELSE [me EXCEPT !.pc = "fill", !.fetches = @ + 1,
                                        !.inflight =
                                            Some(Jwks(upstream[me.url]))]]
        /\ UNCHANGED <<cache, upstream>>
        /\ procVarsUnchanged

(* global_cache.get: the fetched value is stored and returned. *)
CacheFill(p) ==
    LET me == procs[p]
    IN  /\ me.pc = "fill"
        /\ cache' = [cache EXCEPT ![JwksCacheKey(me.url)] = me.inflight]
        /\ procs' = [procs EXCEPT ![p] =
                        [me EXCEPT !.pc = "find", !.jwks = me.inflight,
                                   !.inflight = Absent]]
        /\ UNCHANGED upstream
        /\ procVarsUnchanged

(* Steps 2 and 3 on the JWKS in hand; a miss invalidates and calls again   *)
(* with retry_on_fail False, a second miss is AuthFlowError.               *)
FindKey(p) ==
    LET me == procs[p]
        found == me.kid \in The(me.jwks).keys
    IN  /\ me.pc = "find"
        /\ procs' = [procs EXCEPT ![p] =
                        IF found
                        THEN [me EXCEPT !.pc = "done", !.result = "key"]
                        ELSE IF me.retry_on_fail
                        THEN [me EXCEPT !.pc = "get", !.retry_on_fail = FALSE,
                                        !.jwks = Absent,
                                        !.invalidations = @ + 1]
                        ELSE [me EXCEPT !.pc = "done",
                                        !.result = "AuthFlowError:kid"]]
        /\ cache' = IF ~found /\ me.retry_on_fail
                    THEN [cache EXCEPT
                            ![JwksCacheKey(me.url)] = CacheInvalidate(@)]
                    ELSE cache
        /\ UNCHANGED upstream
        /\ procVarsUnchanged

ExpireJwks(u) ==
    /\ cache[JwksCacheKey(u)] # Absent
    /\ cache' = [cache EXCEPT ![JwksCacheKey(u)] = Absent]
    /\ UNCHANGED <<upstream, procs>>
    /\ procVarsUnchanged

NextJwks ==
    \/ \E p \in Procs, u \in JwksUrls, kid \in Kids : StartVerify(p, u, kid)
    \/ \E p \in Procs : CacheRead(p)
    \/ \E p \in Procs, f \in {"ok", "fail"} : UpstreamFetch(p, f)
    \/ \E p \in Procs : CacheFill(p)
    \/ \E p \in Procs : FindKey(p)
    \/ \E u \in JwksUrls : RotateKeys(u)
    \/ \E u \in JwksUrls : ExpireJwks(u)

SpecJwks == Init /\ [][NextJwks]_vars

(* C8: under every interleaving, a token whose kid is in the provider's    *)
(* key set all through its verification is verified whenever the upstream  *)
(* requests it makes are answered, and no verification makes more than two *)
(* upstream requests.                                                      *)
C8_CacheNotACorrectnessDependency ==
    \A p \in Procs :
        /\ procs[p].fetches <= 2
        /\ (procs[p].pc = "done" /\ procs[p].stable
                /\ procs[p].result # "AuthFlowError:fetch") =>
              procs[p].result = "key"

(* The cost half of C8 alone. *)
C8_AtMostTwoFetches ==
    \A p \in Procs : procs[p].fetches <= 2 /\ procs[p].invalidations <= 1

(***************************************************************************)
(* SpecDomains: the domains of one builder are created, published and      *)
(* trashed, and visitors ask for the public builder of a domain name.      *)
(***************************************************************************)
DomainNames == {"a.io", "B.io"}
RequestedNames == {"a.io", "b.io", "B.io"}

(* str.lower() on the names above. *)
Lower(name) ==
    CASE name = "A.io" -> "a.io"
      [] name = "B.io" -> "b.io"
      [] name = "C.io" -> "c.io"
      [] OTHER -> name

Stored(rows) == {i \in DOMAIN rows : rows[i] # Absent}

(* DomainHandler.create_domain; the domain_name column is unique, and the  *)
(* IntegrityError of save() is not caught here.                            *)
CreateDomainRow(doms, d, builder, domain_name) ==
    LET name == Lower(domain_name)
        taken == \E j \in Stored(doms) : The(doms[j]).domain_name = name
    IN  IF taken
        THEN [error |-> "IntegrityError", domains |-> doms]
        ELSE [error |-> "none",
              domains |-> [doms EXCEPT ![d] =
                             Some([domain_name |-> name, builder |-> builder,
                                   published_to |-> Absent,
                                   trashed |-> FALSE])]]

(* TrashHandler.item_has_a_trashed_parent(domain, check_item_also): the    *)
(* parents of a domain are its builder and the builder's workspace.        *)
ItemHasATrashedParent(domain, blds, ws, check_item_also) ==
    \/ check_item_also /\ domain.trashed
    \/ The(blds[domain.builder]).trashed
    \/ ws.trashed

(* Mutant: the query keeps the domains that were never published. *)
GetPublicBuilderByDomainNameAnyDomain(doms, blds, ws, domain_name) ==
    LET found == {d \in Stored(doms) :
                     The(doms[d]).domain_name = domain_name}
        domain == The(doms[CHOOSE d \in found : TRUE])
    IN  IF found = {}
        THEN [error |-> "BuilderDoesNotExist", result |-> Absent]
        ELSE IF ItemHasATrashedParent(domain, blds, ws, TRUE)
        THEN [error |-> "BuilderDoesNotExist", result |-> Absent]
        ELSE [error |-> "none", result |-> domain.published_to]

(* DomainHandler.get_public_builder_by_domain_name *)
GetPublicBuilderByDomainName(doms, blds, ws, domain_name) ==
    LET found == {d \in Stored(doms) :
                     /\ The(doms[d]).published_to # Absent
                     /\ The(doms[d]).domain_name = domain_name}
        domain == The(doms[CHOOSE d \in found : TRUE])
    IN  IF found = {}
        THEN [error |-> "BuilderDoesNotExist", result |-> Absent]
        ELSE IF ItemHasATrashedParent(domain, blds, ws, TRUE)
        THEN [error |-> "BuilderDoesNotExist", result |-> Absent]
        ELSE [error |-> "none", result |-> domain.published_to]

(* Mutant: publish leaves the previous publication in place. *)
PublishDomainKeepPrevious(doms, blds, seq, d) ==
    LET domain == The(doms[d])
        duplicate_builder == seq + 1
    IN  [domains |-> [doms EXCEPT ![d] =
                        Some([domain EXCEPT
                                !.published_to = Some(duplicate_builder)])],
         builders |-> [blds EXCEPT ![duplicate_builder] =
                         Some([published_from |-> Some(d),
                               trashed |-> FALSE])],
         builderSeq |-> duplicate_builder]

(* DomainHandler.publish: the previous publication is deleted, the builder *)
(* is exported and imported as a new Builder row, the domain points to it. *)
PublishDomain(doms, blds, seq, d) ==
    LET domain == The(doms[d])
        deleted == IF domain.published_to # Absent
                   THEN [blds EXCEPT ![The(domain.published_to)] = Absent]
                   ELSE blds
        duplicate_builder == seq + 1
    IN  [domains |-> [doms EXCEPT ![d] =
                        Some([domain EXCEPT
                                !.published_to = Some(duplicate_builder)])],
         builders |-> [deleted EXCEPT ![duplicate_builder] =
                         Some([published_from |-> Some(d),
                               trashed |-> FALSE])],
         builderSeq |-> duplicate_builder]

builderVarsOnly ==
    UNCHANGED <<ssoVars, workflowVars, serviceVars,
                urlVars, flowVars, publishVars,
                userSourceVars>>

CreateDomain(d, domain_name) ==
    LET r == CreateDomainRow(domains, d, SourceBuilder, domain_name)
    IN  /\ domains[d] = Absent
        /\ \A j \in DomainIds : j < d => domains[j] # Absent
        /\ domains' = r.domains
        /\ domCall' = [NoDomCall EXCEPT !.op = "create_domain",
                          !.domain_name = domain_name, !.domain = d,
                          !.error = r.error]
        /\ UNCHANGED <<builders, workspace, builderSeq>>
        /\ builderVarsOnly

Publish(d) ==
    LET r == PublishDomain(domains, builders, builderSeq, d)
    IN  /\ domains[d] # Absent
        /\ ~The(domains[d]).trashed
        /\ builderSeq < MaxBuilderId
        /\ domains' = r.domains
        /\ builders' = r.builders
        /\ builderSeq' = r.builderSeq
        /\ domCall' = [NoDomCall EXCEPT !.op = "publish", !.domain = d,
                          !.result = Some(r.builderSeq)]
        /\ UNCHANGED workspace
        /\ builderVarsOnly

(* The trash: a domain, the builder or the workspace is trashed or         *)
(* restored.                                                               *)
SetDomainTrashed(d, flag) ==
    /\ domains[d] # Absent
    /\ The(domains[d]).trashed # flag
    /\ domains' = [domains EXCEPT ![d] = Some([The(@) EXCEPT !.trashed = flag])]
    /\ domCall' = [NoDomCall EXCEPT !.op = "trash", !.domain = d]
    /\ UNCHANGED <<builders, workspace, builderSeq>>
    /\ builderVarsOnly

SetBuilderTrashed(flag) ==
    /\ The(builders[SourceBuilder]).trashed # flag
    /\ builders' = [builders EXCEPT ![SourceBuilder] =
                      Some([The(@) EXCEPT !.trashed = flag])]
    /\ domCall' = [NoDomCall EXCEPT !.op = "trash"]
    /\ UNCHANGED <<domains, workspace, builderSeq>>
    /\ builderVarsOnly

SetWorkspaceTrashed(flag) ==
    /\ workspace.trashed # flag
    /\ workspace' = [workspace EXCEPT !.trashed = flag]
    /\ domCall' = [NoDomCall EXCEPT !.op = "trash"]
    /\ UNCHANGED <<domains, builders, builderSeq>>
    /\ builderVarsOnly

(* The public view asks for the builder of a domain name. *)
GetPublicBuilder(domain_name) ==
    LET r == GetPublicBuilderByDomainName(domains, builders, workspace,
                                          domain_name)
    IN  /\ domCall' = [NoDomCall EXCEPT
                          !.op = "get_public_builder_by_domain_name",
                          !.domain_name = domain_name,
                          !.error = r.error, !.result = r.result]
        /\ UNCHANGED <<domains, builders, workspace, builderSeq>>
        /\ builderVarsOnly

NextDomains ==
    \/ \E d \in DomainIds, n \in DomainNames : CreateDomain(d, n)
    \/ \E d \in DomainIds : Publish(d)
    \/ \E d \in DomainIds, flag \in BOOLEAN : SetDomainTrashed(d, flag)
    \/ \E flag \in BOOLEAN : SetBuilderTrashed(flag)
    \/ \E flag \in BOOLEAN : SetWorkspaceTrashed(flag)
    \/ \E n \in RequestedNames : GetPublicBuilder(n)

SpecDomains == Init /\ [][NextDomains]_vars

(* The domains stored under the requested name that are published and     *)
(* neither trashed themselves nor inside a trashed builder or workspace.   *)
PublicDomains ==
    {d \in DomainIds :
        /\ domains[d] # Absent
        /\ The(domains[d]).domain_name = domCall.domain_name
        /\ The(domains[d]).published_to # Absent
        /\ ~The(domains[d]).trashed
        /\ ~The(builders[The(domains[d]).builder]).trashed
        /\ ~workspace.trashed}

(* C18: get_public_builder_by_domain_name returns a builder exactly when   *)
(* the name is that of a published domain that is not trashed and has no   *)
(* trashed parent, and then the builder is that domain's publication, a    *)
(* clone and not the builder it was published from; in every other case    *)
(* it raises BuilderDoesNotExist.                                          *)
C18_PublicBuilderOnly ==
    domCall.op = "get_public_builder_by_domain_name" =>
        IF PublicDomains = {}
        THEN domCall.error = "BuilderDoesNotExist" /\ domCall.result = Absent
        ELSE /\ domCall.error = "none"
             /\ \E d \in PublicDomains :
                  /\ domCall.result = The(domains[d]).published_to
                  /\ The(domCall.result) # The(domains[d]).builder
                  /\ builders[The(domCall.result)] # Absent
                  /\ The(builders[The(domCall.result)]).published_from = Some(d)

C18_Witness ==
    /\ domCall.op = "get_public_builder_by_domain_name"
    /\ domCall.error = "BuilderDoesNotExist"
    /\ \E d \in DomainIds :
         /\ domains[d] # Absent
         /\ The(domains[d]).domain_name = domCall.domain_name
         /\ The(domains[d]).published_to = Absent
         /\ ~The(domains[d]).trashed

C18_WitnessPublished ==
    /\ domCall.op = "get_public_builder_by_domain_name"
    /\ domCall.error = "none"
    /\ domCall.result # Absent

C18_WitnessTrashed ==
    /\ domCall.op = "get_public_builder_by_domain_name"
    /\ domCall.error = "BuilderDoesNotExist"
    /\ \E d \in DomainIds :
         /\ domains[d] # Absent
         /\ The(domains[d]).domain_name = domCall.domain_name
         /\ The(domains[d]).published_to # Absent
         /\ The(domains[d]).trashed

(***************************************************************************)
(* SpecWorkflows: two users, each a member of the workspace of one of two  *)
(* automations, call AutomationWorkflowService.  Every operation looks up  *)
(* its target, checks the permission of the user on the target's           *)
(* workspace, and only then lets the handler touch the rows.               *)
(***************************************************************************)
Users == {"ann", "bob"}
Automations == {1, 2}

(* data_fixture.create_automation_application(user=user): the user is a    *)
(* member of the automation's workspace; without user= they are not.       *)
IsMember(user, automation) ==
    \/ user = "ann" /\ automation = 1
    \/ user = "bob" /\ automation = 2

UpdatedNames == {"new"}
CreatedNames == {"test"}

OrderLists ==
    {<<a>> : a \in WorkflowIds}
        \cup {q \in WorkflowIds \X WorkflowIds : q[1] # q[2]}

InAutomation(wfs, automation) ==
    {w \in Stored(wfs) : The(wfs[w]).automation = automation}

LastOrder(wfs, automation) ==
    LET orders == {The(wfs[w]).order : w \in InAutomation(wfs, automation)}
    IN  IF orders = {} THEN 0
        ELSE CHOOSE o \in orders : \A p \in orders : p <= o

Range(q) == {q[k] : k \in 1 .. Len(q)}

WfResult(error, wfs, seq, result) ==
    [error |-> error, workflows |-> wfs, wfSeq |-> seq, result |-> result]

GetWorkflow(wfs, seq, user, workflow_id) ==
    IF wfs[workflow_id] = Absent
    THEN WfResult("AutomationWorkflowDoesNotExist", wfs, seq, Absent)
    ELSE IF ~IsMember(user, The(wfs[workflow_id]).automation)
    THEN WfResult("UserNotInWorkspace", wfs, seq, Absent)
    ELSE WfResult("none", wfs, seq, Some(workflow_id))

CreateWorkflow(wfs, seq, user, automation, name) ==
    IF ~IsMember(user, automation)
    THEN WfResult("UserNotInWorkspace", wfs, seq, Absent)
    ELSE WfResult("none",
            [wfs EXCEPT ![seq + 1] =
                Some([automation |-> automation, name |-> name,
                      order |-> LastOrder(wfs, automation) + 1])],
            seq + 1, Some(seq + 1))

UpdateWorkflow(wfs, seq, user, workflow_id, name) ==
    IF wfs[workflow_id] = Absent
    THEN WfResult("AutomationWorkflowDoesNotExist", wfs, seq, Absent)
    ELSE IF ~IsMember(user, The(wfs[workflow_id]).automation)
    THEN WfResult("UserNotInWorkspace", wfs, seq, Absent)
    ELSE WfResult("none",
            [wfs EXCEPT ![workflow_id] = Some([The(@) EXCEPT !.name = name])],
            seq, Some(workflow_id))

(* Mutant: the row is deleted before the permission is checked. *)
DeleteWorkflowThenCheck(wfs, seq, user, workflow_id) ==
    IF wfs[workflow_id] = Absent
    THEN WfResult("AutomationWorkflowDoesNotExist", wfs, seq, Absent)
    ELSE IF ~IsMember(user, The(wfs[workflow_id]).automation)
    THEN WfResult("UserNotInWorkspace",
                  [wfs EXCEPT ![workflow_id] = Absent], seq, Absent)
    ELSE WfResult("none", [wfs EXCEPT ![workflow_id] = Absent], seq, Absent)

DeleteWorkflow(wfs, seq, user, workflow_id) ==
    IF wfs[workflow_id] = Absent
    THEN WfResult("AutomationWorkflowDoesNotExist", wfs, seq, Absent)
    ELSE IF ~IsMember(user, The(wfs[workflow_id]).automation)
    THEN WfResult("UserNotInWorkspace", wfs, seq, Absent)
    ELSE WfResult("none", [wfs EXCEPT ![workflow_id] = Absent], seq, Absent)

OrderWorkflows(wfs, seq, user, automation, order) ==
    IF ~IsMember(user, automation)
    THEN WfResult("UserNotInWorkspace", wfs, seq, Absent)
    ELSE IF ~(Range(order) \subseteq InAutomation(wfs, automation))
    THEN WfResult("AutomationWorkflowNotInAutomation", wfs, seq, Absent)
    ELSE WfResult("none",
            [w \in WorkflowIds |->
                IF w \in Range(order)
                THEN Some([The(wfs[w]) EXCEPT !.order =
                            CHOOSE k \in 1 .. Len(order) : order[k] = w])
                ELSE IF w \in InAutomation(wfs, automation)
                THEN Some([The(wfs[w]) EXCEPT !.order = Len(order) +
                            Cardinality({v \in InAutomation(wfs, automation)
                                            \ Range(order) :
                                The(wfs[v]).order <= The(wfs[w]).order})])
                ELSE wfs[w]],
            seq, Some(order))

DuplicateWorkflow(wfs, seq, user, workflow_id) ==
    IF ~IsMember(user, The(wfs[workflow_id]).automation)
    THEN WfResult("UserNotInWorkspace", wfs, seq, Absent)
    ELSE WfResult("none",
            [wfs EXCEPT ![seq + 1] =
                Some([automation |-> The(wfs[workflow_id]).automation,
                      name |-> "copy",
                      order |-> LastOrder(wfs,
                                    The(wfs[workflow_id]).automation) + 1])],
            seq + 1, Some(seq + 1))

(* One call of the service by a user; automation is that of the target. *)
ServiceCall(op, user, automation, workflow_id, r) ==
    /\ workflows' = r.workflows
    /\ wfSeq' = r.wfSeq
    /\ wfCall' = [op |-> op, user |-> user, automation |-> automation,
                  workflow |-> workflow_id, error |-> r.error,
                  result |-> r.result, before |-> workflows]
    /\ UNCHANGED <<ssoVars, builderVars, serviceVars, urlVars, flowVars>>

AutomationOf(workflow_id) ==
    IF workflows[workflow_id] = Absent THEN 0
    ELSE The(workflows[workflow_id]).automation

GetWorkflowCall(user, workflow_id) ==
    ServiceCall("get_workflow", user, AutomationOf(workflow_id), workflow_id,
                GetWorkflow(workflows, wfSeq, user, workflow_id))

CreateWorkflowCall(user, automation, name) ==
    /\ IsMember(user, automation) => wfSeq < MaxWorkflowId
    /\ ServiceCall("create_workflow", user, automation, 0,
                   CreateWorkflow(workflows, wfSeq, user, automation, name))

UpdateWorkflowCall(user, workflow_id, name) ==
    ServiceCall("update_workflow", user, AutomationOf(workflow_id),
                workflow_id,
                UpdateWorkflow(workflows, wfSeq, user, workflow_id, name))

DeleteWorkflowCall(user, workflow_id) ==
    ServiceCall("delete_workflow", user, AutomationOf(workflow_id),
                workflow_id,
                DeleteWorkflow(workflows, wfSeq, user, workflow_id))

OrderWorkflowsCall(user, automation, order) ==
    ServiceCall("order_workflows", user, automation, 0,
                OrderWorkflows(workflows, wfSeq, user, automation, order))

DuplicateWorkflowCall(user, workflow_id) ==
    /\ workflows[workflow_id] # Absent
    /\ IsMember(user, AutomationOf(workflow_id)) => wfSeq < MaxWorkflowId
    /\ ServiceCall("duplicate_workflow", user, AutomationOf(workflow_id),
                   workflow_id,
                   DuplicateWorkflow(workflows, wfSeq, user, workflow_id))

NextWorkflows ==
    \/ \E u \in Users, w \in WorkflowIds : GetWorkflowCall(u, w)
    \/ \E u \in Users, a \in Automations, n \in CreatedNames :
         CreateWorkflowCall(u, a, n)
    \/ \E u \in Users, w \in WorkflowIds, n \in UpdatedNames :
         UpdateWorkflowCall(u, w, n)
    \/ \E u \in Users, w \in WorkflowIds : DeleteWorkflowCall(u, w)
    \/ \E u \in Users, a \in Automations, o \in OrderLists :
         OrderWorkflowsCall(u, a, o)
    \/ \E u \in Users, w \in WorkflowIds : DuplicateWorkflowCall(u, w)

SpecWorkflows == Init /\ [][NextWorkflows]_vars

(* The last call was made on an automation, or on a stored workflow of an  *)
(* automation, whose workspace the calling user is not a member of.        *)
CalledByOutsider ==
    /\ wfCall.op # "none"
    /\ wfCall.automation \in Automations
    /\ ~IsMember(wfCall.user, wfCall.automation)

(* C19: a service call by a user outside the workspace of the automation   *)
(* raises UserNotInWorkspace and leaves every workflow row as it was, so   *)
(* the number of workflows is the same before and after.                   *)
C19_OutsiderChangesNothing ==
    CalledByOutsider =>
        /\ wfCall.error = "UserNotInWorkspace"
        /\ wfCall.result = Absent
        /\ workflows = wfCall.before
        /\ Cardinality(Stored(workflows)) = Cardinality(Stored(wfCall.before))

C19_Witness ==
    /\ CalledByOutsider
    /\ wfCall.op = "delete_workflow"
    /\ wfCall.error = "UserNotInWorkspace"
    /\ workflows[wfCall.workflow] # Absent
    /\ Cardinality(Stored(workflows)) = 2

C19_WitnessOrder ==
    /\ CalledByOutsider
    /\ wfCall.op = "order_workflows"
    /\ Cardinality(InAutomation(workflows, wfCall.automation)) = 2

(***************************************************************************)
(* Local Baserow table service: get_context_data, get_context_data_schema  *)
(* and generate_schema of LocalBaserowTableServiceType.  The field objects *)
(* of the service's table are memoised; creating a field gives the table a *)
(* new version.  A result is the set of ids of the fields it has an entry  *)
(* for.                                                                    *)
(***************************************************************************)

FieldTypes == {"text", "single_select"}

(* Field types that carry select options. *)
SelectTypes == {"single_select"}

(* allowed_fields arguments: None, [] and lists of field ids. *)
AllowedFieldLists == {Absent, Some({}), Some({2}), Some({2, 3})}

ServiceMethods ==
    {"get_context_data", "get_context_data_schema", "generate_schema"}

(* allowed_fields=None admits every field. *)
Admits(allowed_fields, id) ==
    allowed_fields = Absent \/ id \in The(allowed_fields)

(* Mutant: the memo of a table's field objects ignores the table version. *)
TableFieldsCacheKeyNoVersion(t) == 0

TableFieldsCacheKey(t) == t.version

(* The field objects of the table, from the memo when it has them. *)
GetTableFieldObjects(cached, t) ==
    LET key == TableFieldsCacheKey(t)
        found == {e \in cached : e[1] = key}
    IN  IF found # {}
        THEN [fields |-> The(found)[2], cache |-> cached, hit |-> TRUE]
        ELSE [fields |-> t.fields,
              cache |-> cached \cup {<<key, t.fields>>}, hit |-> FALSE]

GetContextData(fields, allowed_fields) ==
    {f.id : f \in {g \in fields : /\ g.type \in SelectTypes
                                  /\ Admits(allowed_fields, g.id)}}

GetContextDataSchema(fields, allowed_fields) ==
    {f.id : f \in {g \in fields : /\ g.type \in SelectTypes
                                  /\ Admits(allowed_fields, g.id)}}

GenerateSchema(fields, allowed_fields) ==
    {f.id : f \in {g \in fields : Admits(allowed_fields, g.id)}}

ServiceResult(op, fields, allowed_fields) ==
    CASE op = "get_context_data" -> GetContextData(fields, allowed_fields)
      [] op = "get_context_data_schema" ->
            GetContextDataSchema(fields, allowed_fields)
      [] OTHER -> GenerateSchema(fields, allowed_fields)

serviceVarsOnly ==
    UNCHANGED <<ssoVars, builderVars, workflowVars, urlVars, flowVars>>

(* FieldHandler().create_field on the service's table. *)
CreateField(type) ==
    LET f == [id |-> Cardinality(table.fields) + 1, type |-> type]
    IN  /\ f.id \in FieldIds
        /\ table' = [fields |-> table.fields \cup {f},
                     version |-> table.version + 1]
        /\ svcCall' = [op |-> "create_field", allowed_fields |-> Absent,
                       result |-> {}, added |-> Some(f), hit |-> FALSE,
                       prev |-> NoPrevCall]
        /\ UNCHANGED svcCache
        /\ serviceVarsOnly

PrevCall == [op |-> svcCall.op, allowed_fields |-> svcCall.allowed_fields,
             hit |-> svcCall.hit]

(* Mutant: the memo keeps the fields already filtered by the allowed_fields *)
(* of the call that filled it.                                             *)
ServiceMethodCallCacheFiltered(op, allowed_fields) ==
    LET filtered == {f \in table.fields : Admits(allowed_fields, f.id)}
        r == GetTableFieldObjects(svcCache, [table EXCEPT !.fields = filtered])
    IN  /\ svcCache' = r.cache
        /\ svcCall' = [op |-> op, allowed_fields |-> allowed_fields,
                       result |-> ServiceResult(op, r.fields, allowed_fields),
                       added |-> IF svcCall.op = "create_field"
                                 THEN svcCall.added ELSE Absent,
                       hit |-> r.hit, prev |-> PrevCall]
        /\ UNCHANGED table
        /\ serviceVarsOnly

(* One call of a service method; added is the field created right before   *)
(* it, if the previous operation created one.                              *)
ServiceMethodCall(op, allowed_fields) ==
    LET r == GetTableFieldObjects(svcCache, table)
    IN  /\ svcCache' = r.cache
        /\ svcCall' = [op |-> op, allowed_fields |-> allowed_fields,
                       result |-> ServiceResult(op, r.fields, allowed_fields),
                       added |-> IF svcCall.op = "create_field"
                                 THEN svcCall.added ELSE Absent,
                       hit |-> r.hit, prev |-> PrevCall]
        /\ UNCHANGED table
        /\ serviceVarsOnly

GetContextDataCall(allowed_fields) ==
    ServiceMethodCall("get_context_data", allowed_fields)

GetContextDataSchemaCall(allowed_fields) ==
    ServiceMethodCall("get_context_data_schema", allowed_fields)

GenerateSchemaCall(allowed_fields) ==
    ServiceMethodCall("generate_schema", allowed_fields)

NextService ==
    \/ \E type \in FieldTypes : CreateField(type)
    \/ \E a \in AllowedFieldLists : GetContextDataCall(a)
    \/ \E a \in AllowedFieldLists : GetContextDataSchemaCall(a)
    \/ \E a \in AllowedFieldLists : GenerateSchemaCall(a)

SpecService == Init /\ [][NextService]_vars

(* The last operation was a service method called right after a field was  *)
(* created, with an allowed_fields that admits the new field.              *)
CalledAfterCreateField ==
    /\ svcCall.op \in ServiceMethods
    /\ svcCall.added # Absent
    /\ Admits(svcCall.allowed_fields, The(svcCall.added).id)

(* C20 as stated: after a field is added to the table, the next call of    *)
(* any of the three methods returns a result that includes the new field.  *)
C20_IncludesNewField ==
    CalledAfterCreateField => The(svcCall.added).id \in svcCall.result

(* C20, amended: after a field is added, the next call returns what a      *)
(* computation on the table's current fields returns, whatever earlier     *)
(* calls cached: generate_schema includes the new field, and               *)
(* get_context_data and get_context_data_schema include it exactly when it *)
(* is a field with select options.                                         *)
C20_NeverStale ==
    (svcCall.op \in ServiceMethods /\ svcCall.added # Absent) =>
        /\ svcCall.result =
              ServiceResult(svcCall.op, table.fields, svcCall.allowed_fields)
        /\ CalledAfterCreateField =>
              (The(svcCall.added).id \in svcCall.result <=>
                  \/ svcCall.op = "generate_schema"
                  \/ The(svcCall.added).type \in SelectTypes)

(* A select field was created after the memo was filled, and the next call *)
(* reports it.                                                             *)
C20_Witness ==
    /\ CalledAfterCreateField
    /\ svcCall.op = "get_context_data_schema"
    /\ svcCall.allowed_fields = Absent
    /\ \E e \in svcCache : e[1] < table.version
    /\ The(svcCall.added).type = "single_select"
    /\ The(svcCall.added).id \in svcCall.result

(* A text field was created after the memo was filled, and the next        *)
(* get_context_data has no entry for it.                                   *)
C20_WitnessText ==
    /\ CalledAfterCreateField
    /\ svcCall.op = "get_context_data"
    /\ \E e \in svcCache : e[1] < table.version
    /\ The(svcCall.added).type = "text"
    /\ The(svcCall.added).id \notin svcCall.result

(* C21: the result of a call is what its own allowed_fields gives on the   *)
(* table's fields, whatever allowed_fields earlier calls filled the memo   *)
(* with: no field that a call on an empty memo would report is omitted,    *)
(* and no field outside allowed_fields is reported.                        *)
C21_IndependentOfEarlierCalls ==
    svcCall.op \in ServiceMethods =>
        /\ svcCall.result =
              ServiceResult(svcCall.op, table.fields, svcCall.allowed_fields)
        /\ svcCall.allowed_fields # Absent =>
              svcCall.result \subseteq The(svcCall.allowed_fields)
        /\ \A f \in table.fields :
              (/\ Admits(svcCall.allowed_fields, f.id)
               /\ \/ svcCall.op = "generate_schema"
                  \/ f.type \in SelectTypes) => f.id \in svcCall.result

(* A call with allowed_fields=[] filled the memo, and the next call, with  *)
(* the select field allowed, is served from the memo and reports it.       *)
C21_Witness ==
    /\ svcCall.op = "get_context_data_schema"
    /\ svcCall.prev.op \in ServiceMethods
    /\ svcCall.prev.allowed_fields = Some({})
    /\ ~svcCall.prev.hit
    /\ svcCall.hit
    /\ svcCall.allowed_fields = Some({2})
    /\ svcCall.result = {2}

(* The memo was filled by a call with no restriction, and a later          *)
(* generate_schema with allowed_fields=[] reports no field.                *)
C21_WitnessExcluded ==
    /\ svcCall.op = "generate_schema"
    /\ svcCall.prev.op \in ServiceMethods
    /\ svcCall.prev.allowed_fields = Absent
    /\ svcCall.hit
    /\ svcCall.allowed_fields = Some({})
    /\ svcCall.result = {}

(* The stored builders that are clones made by publishing domain d. *)
ClonesOf(blds, d) ==
    {b \in Stored(blds) : The(blds[b]).published_from = Some(d)}

(* C22: whatever publish calls were made, the only clone of a domain that  *)
(* is still stored is the one its published_to points to, a domain that    *)
(* was never published has none, and right after a publish published_to    *)
(* is the clone that publish created.                                      *)
C22_OnePublishedBuilder ==
    /\ \A d \in Stored(domains) :
          ClonesOf(builders, d) = The(domains[d]).published_to
    /\ domCall.op = "publish" =>
          /\ The(domains[domCall.domain]).published_to = domCall.result
          /\ domCall.result = Some(builderSeq)

(* Domain 1 was published as builder 2 and then again as builder 3, and    *)
(* builder 2 is gone.                                                      *)
C22_Witness ==
    /\ domCall.op = "publish"
    /\ domCall.domain = 1
    /\ domCall.result = Some(3)
    /\ builders[2] = Absent
    /\ ClonesOf(builders, 1) = {3}

(***************************************************************************)
(* SpecPublish: two requests publish domains concurrently, each inside its *)
(* own database transaction.  publish is split at its database statements: *)
(* the locking read of the domain, the delete of the previous publication, *)
(* the import of the clone, the save of the domain, and the commit of the  *)
(* transaction, which releases the row lock.                               *)
(***************************************************************************)

(* Mutant: get_domain never asks for the row lock. *)
GetDomainNoLock(doms, locks, p, domain_id, for_update) ==
    IF doms[domain_id] = Absent
    THEN [blocked |-> FALSE, error |-> "DomainDoesNotExist",
          domain |-> Absent, locks |-> locks]
    ELSE [blocked |-> FALSE, error |-> "none", domain |-> doms[domain_id],
          locks |-> locks]

(* DomainHandler.get_domain: with for_update the row is read under         *)
(* SELECT ... FOR UPDATE, which waits while another transaction holds the  *)
(* row lock and then holds it until the transaction of p ends.             *)
GetDomain(doms, locks, p, domain_id, for_update) ==
    IF doms[domain_id] = Absent
    THEN [blocked |-> FALSE, error |-> "DomainDoesNotExist",
          domain |-> Absent, locks |-> locks]
    ELSE IF for_update /\ locks[domain_id] \notin {Absent, Some(p)}
    THEN [blocked |-> TRUE, error |-> "none", domain |-> Absent,
          locks |-> locks]
    ELSE [blocked |-> FALSE, error |-> "none", domain |-> doms[domain_id],
          locks |-> IF for_update
                    THEN [locks EXCEPT ![domain_id] = Some(p)]
                    ELSE locks]

publishVarsOnly ==
    UNCHANGED <<ssoVars, workflowVars, serviceVars,
                urlVars, flowVars, userSourceVars>>

(* publish(domain) is called. *)
PublishStart(p, d) ==
    /\ pubs[p].pc = "idle"
    /\ domains[d] # Absent
    /\ builderSeq + Cardinality({q \in Publishers : pubs[q].pc # "idle"})
          < MaxBuilderId
    /\ pubs' = [pubs EXCEPT ![p] = [@ EXCEPT !.pc = "get_domain",
                                              !.domain_id = d]]
    /\ UNCHANGED <<domains, builders, workspace, builderSeq, domCall,
                   rowLocks>>
    /\ publishVarsOnly

(* domain = DomainHandler().get_domain(domain.id, for_update=True) *)
PublishGetDomain(p) ==
    LET r == GetDomain(domains, rowLocks, p, pubs[p].domain_id, TRUE)
    IN  /\ pubs[p].pc = "get_domain"
        /\ ~r.blocked
        /\ rowLocks' = r.locks
        /\ pubs' = [pubs EXCEPT ![p] = [@ EXCEPT !.pc = "delete",
                                                  !.domain = r.domain]]
        /\ UNCHANGED <<domains, builders, workspace, builderSeq, domCall>>
        /\ publishVarsOnly

(* if domain.published_to: domain.published_to.delete() *)
PublishDeletePrevious(p) ==
    LET domain == The(pubs[p].domain)
    IN  /\ pubs[p].pc = "delete"
        /\ builders' = IF domain.published_to # Absent
                       THEN [builders EXCEPT
                                ![The(domain.published_to)] = Absent]
                       ELSE builders
        /\ pubs' = [pubs EXCEPT ![p] = [@ EXCEPT !.pc = "import"]]
        /\ UNCHANGED <<domains, workspace, builderSeq, domCall, rowLocks>>
        /\ publishVarsOnly

(* duplicate_builder = builder_application_type.import_serialized(...) *)
PublishImport(p) ==
    /\ pubs[p].pc = "import"
    /\ builderSeq' = builderSeq + 1
    /\ builders' = [builders EXCEPT ![builderSeq + 1] =
                      Some([published_from |-> Some(pubs[p].domain_id),
                            trashed |-> FALSE])]
    /\ pubs' = [pubs EXCEPT ![p] = [@ EXCEPT
                                       !.pc = "save",
                                       !.duplicate_builder = builderSeq + 1]]
    /\ UNCHANGED <<domains, workspace, domCall, rowLocks>>
    /\ publishVarsOnly

(* domain.published_to = duplicate_builder; domain.save() *)
PublishSave(p) ==
    /\ pubs[p].pc = "save"
    /\ domains' = [domains EXCEPT ![pubs[p].domain_id] =
                      Some([The(pubs[p].domain) EXCEPT
                              !.published_to =
                                  Some(pubs[p].duplicate_builder)])]
    /\ pubs' = [pubs EXCEPT ![p] = [@ EXCEPT !.pc = "commit"]]
    /\ UNCHANGED <<builders, workspace, builderSeq, domCall, rowLocks>>
    /\ publishVarsOnly

(* publish returns and the transaction of the request commits, which       *)
(* releases its row locks.                                                 *)
PublishCommit(p) ==
    /\ pubs[p].pc = "commit"
    /\ rowLocks' = [d \in DomainIds |->
                      IF rowLocks[d] = Some(p) THEN Absent ELSE rowLocks[d]]
    /\ pubs' = [pubs EXCEPT ![p] =
                   [IdlePublisher EXCEPT
                      !.last = pubs[p].duplicate_builder,
                      !.lastDomain = pubs[p].domain_id]]
    /\ UNCHANGED <<domains, builders, workspace, builderSeq, domCall>>
    /\ publishVarsOnly

NextPublish ==
    \/ \E d \in DomainIds, n \in DomainNames : CreateDomain(d, n)
    \/ \E p \in Publishers, d \in DomainIds : PublishStart(p, d)
    \/ \E p \in Publishers : PublishGetDomain(p)
    \/ \E p \in Publishers : PublishDeletePrevious(p)
    \/ \E p \in Publishers : PublishImport(p)
    \/ \E p \in Publishers : PublishSave(p)
    \/ \E p \in Publishers : PublishCommit(p)

SpecPublish == Init /\ [][NextPublish]_vars

(* The requests that have read the domain row and not yet committed. *)
InPublish(d) ==
    {p \in Publishers : /\ pubs[p].domain_id = d
                        /\ pubs[p].pc \in {"delete", "import", "save",
                                           "commit"}}

(* C23: concurrent publish calls of a domain run one after the other, and  *)
(* once none is running the domain points to exactly one published builder *)
(* and no other clone of it is stored.                                     *)
C23_PublishSerialized ==
    \A d \in Stored(domains) :
        /\ Cardinality(InPublish(d)) <= 1
        /\ InPublish(d) = {} =>
              /\ ClonesOf(builders, d) = The(domains[d]).published_to
              /\ (\E p \in Publishers : pubs[p].lastDomain = d) =>
                    Cardinality(ClonesOf(builders, d)) = 1

(* Both requests published domain 1 and both have finished. *)
C23_Witness ==
    /\ \A p \in Publishers :
          /\ pubs[p].pc = "idle"
          /\ pubs[p].lastDomain = 1
          /\ pubs[p].last # 0
    /\ pubs["p1"].last # pubs["p2"].last
    /\ Cardinality(ClonesOf(builders, 1)) = 1

(* One request waits for the row lock the other holds. *)
C23_WitnessWaiting ==
    /\ pubs["p1"].pc = "save"
    /\ pubs["p2"].pc = "get_domain"
    /\ pubs["p1"].domain_id = pubs["p2"].domain_id
    /\ GetDomain(domains, rowLocks, "p2", pubs["p2"].domain_id, TRUE).blocked

(***************************************************************************)
(* SpecUserSources: the user sources of the builder are created, deleted   *)
(* and reordered, and its domains are published.  A user source is its uid *)
(* and builder.user_sources.all() the sequence of them in queryset order.  *)
(***************************************************************************)

(* The uids of the user sources a designer creates. *)
OriginalUids == {"u1", "u2"}

(* How many uuids are generated for imported user sources in a run. *)
MaxUuid == 4

(* A uuid the import generates for a user source. *)
GeneratedUid(n) == <<"uuid", n>>

(* Mutant: the uid does not carry the id of the domain. *)
PublishedUidNoDomain(domain_id, original_uid) ==
    <<"domain_", "__", original_uid>>

(* f"domain_{domain.id}__{original_user_source.uid}" *)
PublishedUid(domain_id, original_uid) ==
    <<"domain_", domain_id, "__", original_uid>>

(* import_serialized: one user source of the clone per user source of the  *)
(* builder, in the same order, each under a newly generated uid.           *)
ImportUserSources(originals, seq) ==
    [i \in 1 .. Len(originals) |->
        [uid |-> GeneratedUid(seq + i), cloned_from |-> originals[i]]]

(* zip(duplicate_builder.user_sources.all(), builder.user_sources.all()) *)
Zip(xs, ys) ==
    [i \in 1 .. (IF Len(xs) < Len(ys) THEN Len(xs) ELSE Len(ys)) |->
        <<xs[i], ys[i]>>]

(* The loop of publish over the zipped user sources: every imported user   *)
(* source is saved under the uid made from the domain and the original.    *)
SetPublishedUids(domain_id, imported, originals) ==
    LET pairs == Zip(imported, originals)
    IN  [i \in 1 .. Len(imported) |->
            IF i <= Len(pairs)
            THEN [pairs[i][1] EXCEPT
                    !.uid = PublishedUid(domain_id, pairs[i][2])]
            ELSE imported[i]]

userSourceVarsOnly ==
    UNCHANGED <<ssoVars, workflowVars, serviceVars,
                urlVars, flowVars, domains, builders,
                workspace, builderSeq, domCall, publishVars>>

CreateUserSource(uid) ==
    /\ \A i \in 1 .. Len(userSources.original) :
          userSources.original[i] # uid
    /\ userSources' = [userSources EXCEPT !.original = Append(@, uid)]
    /\ usCall' = [NoUsCall EXCEPT !.op = "create_user_source"]
    /\ UNCHANGED uuidSeq
    /\ userSourceVarsOnly

DeleteUserSource(uid) ==
    /\ \E i \in 1 .. Len(userSources.original) :
          userSources.original[i] = uid
    /\ userSources' = [userSources EXCEPT
                          !.original = SelectSeq(@, LAMBDA u : u # uid)]
    /\ usCall' = [NoUsCall EXCEPT !.op = "delete_user_source"]
    /\ UNCHANGED uuidSeq
    /\ userSourceVarsOnly

(* The first user source is moved behind the others. *)
MoveUserSource ==
    /\ Len(userSources.original) > 1
    /\ userSources' = [userSources EXCEPT
                          !.original = Append(Tail(@), Head(@))]
    /\ usCall' = [NoUsCall EXCEPT !.op = "move_user_source"]
    /\ UNCHANGED uuidSeq
    /\ userSourceVarsOnly

(* The user sources part of publish. *)
PublishUserSources(d) ==
    LET originals == userSources.original
        imported == ImportUserSources(originals, uuidSeq)
    IN  /\ uuidSeq + Len(originals) <= MaxUuid
        /\ uuidSeq' = uuidSeq + Len(originals)
        /\ userSources' = [userSources EXCEPT
                              !.published[d] =
                                  Some(SetPublishedUids(d, imported,
                                                        originals))]
        /\ usCall' = [op |-> "publish", domain |-> d,
                      before |-> userSources.published[d],
                      imported |-> imported]
        /\ userSourceVarsOnly

NextUserSources ==
    \/ \E uid \in OriginalUids : CreateUserSource(uid)
    \/ \E uid \in OriginalUids : DeleteUserSource(uid)
    \/ MoveUserSource
    \/ \E d \in DomainIds : PublishUserSources(d)

SpecUserSources == Init /\ [][NextUserSources]_vars

(* The originals a publication was cloned from, in its order. *)
ClonedFrom(publication) ==
    [i \in 1 .. Len(publication) |-> publication[i].cloned_from]

(* C24: after a publish of a domain, every user source of the clone has    *)
(* the uid 'domain_<domain id>__<uid of the original it was cloned from>', *)
(* there is one for every user source of the builder, and when the         *)
(* previous publication of the domain was made from the same originals the *)
(* uids are the ones that publication had.                                 *)
C24_StableUids ==
    usCall.op = "publish" =>
        LET publication == The(userSources.published[usCall.domain])
        IN  /\ ClonedFrom(publication) = userSources.original
            /\ \A i \in 1 .. Len(publication) :
                  publication[i].uid =
                      <<"domain_", usCall.domain, "__",
                        publication[i].cloned_from>>
            /\ \A d \in DomainIds \ {usCall.domain} :
                  userSources.published[d] # Absent =>
                     \A i \in 1 .. Len(publication),
                        j \in 1 .. Len(The(userSources.published[d])) :
                        publication[i].uid #
                            The(userSources.published[d])[j].uid
            /\ (/\ usCall.before # Absent
                /\ ClonedFrom(The(usCall.before)) = userSources.original) =>
                  publication = The(usCall.before)

(* The domain is published again with the same two user sources. *)
C24_Witness ==
    /\ usCall.op = "publish"
    /\ usCall.before # Absent
    /\ Len(userSources.original) = 2
    /\ ClonedFrom(The(usCall.before)) = userSources.original
    /\ The(userSources.published[usCall.domain]) = The(usCall.before)

(* The domain is published again after the user sources were reordered. *)
C24_WitnessReordered ==
    /\ usCall.op = "publish"
    /\ usCall.before # Absent
    /\ Len(userSources.original) = 2
    /\ ClonedFrom(The(usCall.before)) # userSources.original
    /\ Len(The(usCall.before)) = 2

(***************************************************************************)
(* SpecUrls: the API url registry asks the OAuth2 provider types of the    *)
(* process for their routes, in any order and any number of times.         *)
(***************************************************************************)

(* The provider types that inherit get_api_urls from OAuth2AuthProviderMixin. *)
OAuth2Types == {"google", "facebook", "github", "gitlab", "openid_connect"}

(* How many get_api_urls calls a run makes. *)
MaxUrlCalls == 3

(* [path("sso/oauth2/", include(urls, ...))] *)
SsoOauth2Routes == <<"sso/oauth2/">>

(* Mutant: the flag is read and never set. *)
GetApiUrlsFlagNotSet(type, loaded) ==
    IF ~loaded
    THEN [loaded |-> loaded, result |-> SsoOauth2Routes]
    ELSE [loaded |-> loaded, result |-> <<>>]

(* OAuth2AuthProviderMixin.get_api_urls; loaded is the module global. *)
GetApiUrls(type, loaded) ==
    IF ~loaded
    THEN [loaded |-> TRUE, result |-> SsoOauth2Routes]
    ELSE [loaded |-> loaded, result |-> <<>>]

GetApiUrlsCall(type) ==
    LET r == GetApiUrls(type, isUrlAlreadyLoaded)
    IN  /\ Len(urlCalls) < MaxUrlCalls
        /\ isUrlAlreadyLoaded' = r.loaded
        /\ urlCalls' = Append(urlCalls, [type |-> type, result |-> r.result])
        /\ UNCHANGED <<ssoVars, builderVars, workflowVars, serviceVars,
                       flowVars>>

NextUrls == \E type \in OAuth2Types : GetApiUrlsCall(type)

SpecUrls == Init /\ [][NextUrls]_vars

(* C25: of the get_api_urls calls made so far, on whatever provider types, *)
(* the first returned the 'sso/oauth2/' route and every later one an empty *)
(* list, so the route was returned exactly once.                           *)
C25_RegisteredOnce ==
    /\ \A i \in 1 .. Len(urlCalls) :
          urlCalls[i].result = IF i = 1 THEN <<"sso/oauth2/">> ELSE <<>>
    /\ urlCalls # <<>> =>
          Cardinality({i \in 1 .. Len(urlCalls) :
                          urlCalls[i].result # <<>>}) = 1

(* Three calls, the later ones on another provider type and on the same. *)
C25_Witness ==
    /\ Len(urlCalls) = 3
    /\ urlCalls[1].type = "google"
    /\ urlCalls[2].type = "github"
    /\ urlCalls[3].type = "google"
    /\ urlCalls[2].result = <<>>
    /\ urlCalls[3].result = <<>>

(***************************************************************************)
(* SpecTwoProviders: logins with two OIDC providers that read the ID token *)
(* and publish their keys at different JWKS urls, with key rotation and    *)
(* cache expiry at both.                                                   *)
(***************************************************************************)
TwoProviders ==
    {Instance("openid_connect", TRUE, u, LastNameAttrKey) : u \in Urls}

(* Token answers with an ID token signed under the key id k1. *)
SignedTokenResponses ==
    {Some([id_token |-> Some([hdr |-> "k1", sigOk |-> TRUE,
                              claims |-> IdClaims])])}

JwksFetches == {<<"ok", "ok">>, <<"fail", "fail">>}

(* A callback of one of the providers; flow keeps the cache it found. *)
ProviderCallback(inst, tokenResp, fs) ==
    /\ CallbackStep(inst, 1, tokenResp, Some(UserJson), Some(PrimaryOnly), fs)
    /\ flow' = <<[op |-> "get_user_info", cacheBefore |-> cache]>>

NextTwoProviders ==
    \/ \E inst \in TwoProviders : Login(inst, Some(Q1))
    \/ \E inst \in TwoProviders, tokenResp \in SignedTokenResponses,
          fs \in JwksFetches : ProviderCallback(inst, tokenResp, fs)
    \/ \E u \in Urls : RotateKeys(u)
    \/ \E u \in Urls : Expire(u)

SpecTwoProviders == Init /\ [][NextTwoProviders]_vars

(* C26: a callback of the provider with JWKS url u reads, fills and        *)
(* invalidates the cache entry of u only: the entry of every other JWKS    *)
(* url is after the callback what it was before, and the entry of u is     *)
(* what the verification left.                                             *)
C26_OnlyOwnEntry ==
    [][\A inst \in TwoProviders, tokenResp \in SignedTokenResponses,
          fs \in JwksFetches :
          ProviderCallback(inst, tokenResp, fs)
             => /\ \A v \in Urls \ {inst.jwks_url} :
                      cache'[JwksCacheKey(v)] = cache[JwksCacheKey(v)]
                /\ call'.jwks_url = inst.jwks_url
                /\ call'.cachedBefore = cache[JwksCacheKey(inst.jwks_url)]]_vars

(* A callback of the provider at u1 missed the key in its cached JWKS,     *)
(* invalidated the entry and fetched again, while the JWKS of the provider *)
(* at u2 was cached, and still is.                                         *)
C26_Witness ==
    /\ call.op = "get_user_info"
    /\ call.jwks_url = "u1"
    /\ call.cachedBefore # Absent
    /\ call.invalidations = 1
    /\ call.fetches = 1
    /\ flow # <<>>
    /\ flow[1].cacheBefore[JwksCacheKey("u2")] # Absent
    /\ cache[JwksCacheKey("u2")] = flow[1].cacheBefore[JwksCacheKey("u2")]
    /\ cache[JwksCacheKey("u1")] # flow[1].cacheBefore[JwksCacheKey("u1")]

(***************************************************************************)
(* SpecRequestData: push_request_data_to_session and                       *)
(* pop_request_data_from_session on one session, in any order, and a       *)
(* session whose 'oauth_request_data' holds text that is not json.         *)
(***************************************************************************)

(* The query parameters of a login request: None, or a dict of strings. *)
RequestDicts == {Absent} \cup {Some(d) : d \in (SUBSET Q2) \cup {Q1}}

(* Strings json.loads raises JSONDecodeError on. *)
NotJson == {<<"text", "">>, <<"text", "{original">>}

PushRequestData(query_params) ==
    /\ session' = PushRequestDataToSession(session, query_params)
    /\ call' = [NoCall EXCEPT
                   !.op = "push_request_data_to_session",
                   !.reqBefore = session.oauth_request_data,
                   !.query_params = query_params]
    /\ UNCHANGED <<gen, consumed, cache, upstream, procs, providers, cfgCall>>
    /\ UNCHANGED <<builderVars, workflowVars, serviceVars, urlVars, flowVars>>

(* after is the operation made right before the pop, and query_params what *)
(* it was given when it was a push.                                        *)
PopRequestData ==
    LET r == PopRequestDataFromSession(session)
    IN  /\ session' = r.session
        /\ call' = [NoCall EXCEPT
                       !.op = "pop_request_data_from_session",
                       !.reqBefore = session.oauth_request_data,
                       !.data = r.data,
                       !.after = call.op,
                       !.query_params = call.query_params]
        /\ UNCHANGED <<gen, consumed, cache, upstream, procs, providers,
                       cfgCall>>
        /\ UNCHANGED <<builderVars, workflowVars, serviceVars,
                       urlVars, flowVars>>

(* The session comes back from its store with text that is not json. *)
StoreNotJson(text) ==
    /\ session' = [session EXCEPT !.oauth_request_data = Some(text)]
    /\ call' = [NoCall EXCEPT !.op = "store",
                              !.reqBefore = session.oauth_request_data]
    /\ UNCHANGED <<gen, consumed, cache, upstream, procs, providers, cfgCall>>
    /\ UNCHANGED <<builderVars, workflowVars, serviceVars, urlVars, flowVars>>

NextRequestData ==
    \/ \E q \in RequestDicts : PushRequestData(q)
    \/ PopRequestData
    \/ \E text \in NotJson : StoreNotJson(text)

SpecRequestData == Init /\ [][NextRequestData]_vars

(* C28: a pop right after push(q) returns q, or an empty dict when q is    *)
(* None; every pop leaves the session without the key; and a pop that      *)
(* finds nothing stored, as every pop right after a pop does, or finds     *)
(* text that is not json, returns an empty dict.                           *)
C28_RoundTrip ==
    call.op = "pop_request_data_from_session" =>
        /\ session.oauth_request_data = Absent
        /\ call.after = "push_request_data_to_session" =>
              call.data = (IF call.query_params = Absent THEN {}
                           ELSE The(call.query_params))
        /\ call.after = "pop_request_data_from_session" =>
              call.reqBefore = Absent
        /\ (\/ call.reqBefore = Absent
            \/ The(call.reqBefore) \in NotJson) => call.data = {}

(* The three parameters of a login were pushed and popped. *)
C28_Witness ==
    /\ call.op = "pop_request_data_from_session"
    /\ call.after = "push_request_data_to_session"
    /\ call.query_params = Some(Q2)
    /\ call.data = Q2

(* A second pop in a row. *)
C28_WitnessSecondPop ==
    /\ call.op = "pop_request_data_from_session"
    /\ call.after = "pop_request_data_from_session"
    /\ call.data = {}

(* A pop of text that is not json. *)
C28_WitnessNotJson ==
    /\ call.op = "pop_request_data_from_session"
    /\ call.reqBefore # Absent
    /\ The(call.reqBefore) \in NotJson
    /\ call.data = {}

(* None was pushed and an empty dict popped. *)
C28_WitnessNone ==
    /\ call.op = "pop_request_data_from_session"
    /\ call.after = "push_request_data_to_session"
    /\ call.query_params = Absent
    /\ call.data = {}

(***************************************************************************)
(* SpecTwoLogins: one browser session starts logins and handles callbacks  *)
(* in any order; flow keeps what each of them was given, found and left.   *)
(***************************************************************************)

(* How many logins and callbacks of the session a run follows. *)
MaxFlow == 4

Google == Instance("google", FALSE, "none", "")

LoginParams == {Some(Q1), Some(Q2)}

(* The token endpoint fails, or answers with a token. *)
PlainTokenResponses == {Absent, Some([id_token |-> Absent])}

TrackedLogin(query_params) ==
    /\ Len(flow) < MaxFlow
    /\ LoginStep(Google, query_params)
    /\ flow' = Append(flow, [op |-> "get_authorization_url",
                             query_params |-> The(query_params),
                             state |-> call'.urlState,
                             storedBefore |-> session.oauth_state,
                             kind |-> call'.kind,
                             userInfo |-> Absent,
                             sessionAfter |-> session'])

TrackedCallback(presented, tokenResp, userResp) ==
    /\ Len(flow) < MaxFlow
    /\ CallbackStep(Google, presented, tokenResp, userResp, Some(PrimaryOnly),
                    <<"ok", "ok">>)
    /\ flow' = Append(flow, [op |-> "get_user_info",
                             query_params |-> {},
                             state |-> presented,
                             storedBefore |-> session.oauth_state,
                             kind |-> call'.kind,
                             userInfo |-> call'.userInfo,
                             sessionAfter |-> session'])

NextTwoLogins ==
    \/ \E q \in LoginParams : TrackedLogin(q)
    \/ \E presented \in Presented, tokenResp \in PlainTokenResponses,
          userResp \in UserResponses :
            TrackedCallback(presented, tokenResp, userResp)

SpecTwoLogins == Init /\ [][NextTwoLogins]_vars

(* The invitation token, language and original url of request parameters,  *)
(* as a UserInfo carries them.                                             *)
RequestFields(request_data) ==
    [workspace_invitation_token |->
        DictGet(request_data, "workspace_invitation_token", "None"),
     language |-> DictGet(request_data, "language", "None"),
     original |-> DictGet(request_data, "original", "")]

ReturnedFields(userInfo) ==
    [workspace_invitation_token |-> userInfo.workspace_invitation_token,
     language |-> userInfo.language,
     original |-> userInfo.original]

(* Logins A and B were made first, before any callback. *)
TwoLoginsFirst ==
    /\ Len(flow) >= 2
    /\ flow[1].op = "get_authorization_url"
    /\ flow[2].op = "get_authorization_url"

(* After A and B the session holds the state of B's redirect and B's       *)
(* request parameters only.                                                *)
HoldsOnlyB ==
    TwoLoginsFirst =>
        /\ flow[2].sessionAfter.oauth_state = Some(flow[2].state)
        /\ flow[2].sessionAfter.oauth_request_data =
              Some(JsonDumps(flow[2].query_params))

FirstCallback ==
    TwoLoginsFirst /\ Len(flow) >= 3 /\ flow[3].op = "get_user_info"

OtherCallback ==
    FirstCallback /\ Len(flow) >= 4 /\ flow[4].op = "get_user_info"

C29_WitnessFailedFirst ==
    /\ OtherCallback
    /\ flow[2].query_params = Q2
    /\ flow[3].kind = "AuthFlowError"
    /\ flow[4].userInfo # Absent
    /\ The(flow[4].userInfo).language = "fr"

(***************************************************************************)
(* SpecDomainNames: the domains of one builder are created and renamed     *)
(* with names in any case.                                                 *)
(***************************************************************************)
GivenNames == {"a.io", "A.io", "b.io", "B.io", "c.io", "C.io"}

(* The kwargs of update_domain: without domain_name, or with one. *)
DomainUpdateValues == {Absent} \cup {Some(n) : n \in GivenNames}

(* Mutant: update saves the name as it was given. *)
UpdateDomainRowAsGiven(doms, d, values) ==
    LET domain == The(doms[d])
        name == IF values = Absent THEN domain.domain_name ELSE The(values)
        taken == \E j \in Stored(doms) \ {d} :
                    The(doms[j]).domain_name = name
    IN  IF taken
        THEN [error |-> IF values # Absent THEN "DomainNameNotUniqueError"
                        ELSE "IntegrityError",
              errorName |-> IF values # Absent THEN name ELSE "",
              domains |-> doms]
        ELSE [error |-> "none", errorName |-> "",
              domains |-> [doms EXCEPT ![d] =
                             Some([domain EXCEPT !.domain_name = name])]]

(* DomainHandler.update_domain: a supplied domain_name is lower-cased and  *)
(* set, save() runs, and the unique violation of the domain_name column    *)
(* becomes DomainNameNotUniqueError(prepared_values["domain_name"]); the   *)
(* row in the table is written only by a save() that succeeds.             *)
UpdateDomainRow(doms, d, values) ==
    LET domain == The(doms[d])
        name == IF values = Absent THEN domain.domain_name
                ELSE Lower(The(values))
        taken == \E j \in Stored(doms) \ {d} :
                    The(doms[j]).domain_name = name
    IN  IF taken
        THEN [error |-> IF values # Absent THEN "DomainNameNotUniqueError"
                        ELSE "IntegrityError",
              errorName |-> IF values # Absent THEN name ELSE "",
              domains |-> doms]
        ELSE [error |-> "none", errorName |-> "",
              domains |-> [doms EXCEPT ![d] =
                             Some([domain EXCEPT !.domain_name = name])]]

UpdateDomain(d, values) ==
    LET r == UpdateDomainRow(domains, d, values)
    IN  /\ domains[d] # Absent
        /\ domains' = r.domains
        /\ domCall' = [NoDomCall EXCEPT !.op = "update_domain",
                          !.domain_name = IF values = Absent THEN ""
                                          ELSE The(values),
                          !.domain = d, !.error = r.error,
                          !.errorName = r.errorName,
                          !.before = domains]
        /\ UNCHANGED <<builders, workspace, builderSeq>>
        /\ builderVarsOnly

NextDomainNames ==
    \/ \E d \in DomainIds, n \in GivenNames : CreateDomain(d, n)
    \/ \E d \in DomainIds, values \in DomainUpdateValues : UpdateDomain(d, values)

SpecDomainNames == Init /\ [][NextDomainNames]_vars

(* C30: after any sequence of create_domain and update_domain calls every  *)
(* stored domain_name is lower case; an update that gives a domain_name    *)
(* stores it lower-cased, or, when another domain has that name, raises    *)
(* DomainNameNotUniqueError with the lower-cased name and leaves the       *)
(* stored domains as they were.                                            *)
C30_LowerCaseNames ==
    /\ \A d \in Stored(domains) :
          Lower(The(domains[d]).domain_name) = The(domains[d]).domain_name
    /\ (domCall.op = "update_domain" /\ domCall.domain_name # "") =>
          IF \E j \in Stored(domCall.before) \ {domCall.domain} :
                The(domCall.before[j]).domain_name = Lower(domCall.domain_name)
          THEN /\ domCall.error = "DomainNameNotUniqueError"
               /\ domCall.errorName = Lower(domCall.domain_name)
               /\ domains = domCall.before
          ELSE /\ domCall.error = "none"
               /\ The(domains[domCall.domain]).domain_name =
                     Lower(domCall.domain_name)

(* An update with an upper-case name is stored in lower case. *)
C30_Witness ==
    /\ domCall.op = "update_domain"
    /\ domCall.domain_name = "B.io"
    /\ domCall.error = "none"
    /\ The(domCall.before[domCall.domain]).domain_name = "a.io"
    /\ The(domains[domCall.domain]).domain_name = "b.io"

(* An update to the name of another domain, in another case, is refused. *)
C30_WitnessNotUnique ==
    /\ domCall.op = "update_domain"
    /\ domCall.domain_name = "A.io"
    /\ domCall.error = "DomainNameNotUniqueError"
    /\ domCall.errorName = "a.io"
    /\ The(domains[domCall.domain]).domain_name = "b.io"

====
